---------------------------- MODULE Spec2Model ----------------------------
(***************************************************************************)
(* A model of the TheTVDB metadata provider: the identifier codec          *)
(* (MetadataService.parseRatingKey and the ratingKey templates of          *)
(* TVDBMapper), the entity mapper (TVDBMapper) and the lookup service      *)
(* (MetadataService.getMetadata / getImages / getChildren /                *)
(* getGrandchildren), run against an upstream catalog.                     *)
(*                                                                         *)
(* Conventions.                                                            *)
(*  - A JavaScript string is a sequence of one-character strings, so that  *)
(*    template literals, regular expressions, parseInt and toLowerCase     *)
(*    are computed character by character.                                 *)
(*  - An optional string that the code only reads through `x || y` or      *)
(*    `if (x)` is the empty sequence when it is null, undefined or "".     *)
(*  - An optional number is <<>> (absent) or <<n>>.                        *)
(*  - An optional record is Null or the record.                            *)
(*  - An optional list is <<>> (absent) or <<list>>.                       *)
(***************************************************************************)
EXTENDS Integers, Sequences, FiniteSets, TLC

(***************************************************************************)
(* Characters and strings                                                  *)
(***************************************************************************)
DigitChars == <<"0", "1", "2", "3", "4", "5", "6", "7", "8", "9">>

LowerChars ==
  <<"a", "b", "c", "d", "e", "f", "g", "h", "i", "j", "k", "l", "m",
    "n", "o", "p", "q", "r", "s", "t", "u", "v", "w", "x", "y", "z">>

UpperChars ==
  <<"A", "B", "C", "D", "E", "F", "G", "H", "I", "J", "K", "L", "M",
    "N", "O", "P", "Q", "R", "S", "T", "U", "V", "W", "X", "Y", "Z">>

Range(f) == { f[i] : i \in DOMAIN f }

Null == [null |-> TRUE]

\* The regular-expression class \d and the one-or-more repetition \d+.
IsDigit(c) == c \in Range(DigitChars)

IsDigits(s) == Len(s) > 0 /\ \A i \in 1..Len(s) : IsDigit(s[i])

\* The class [a-z] and the repetition [a-z]+.
IsLower(c) == c \in Range(LowerChars)

IsLowers(s) == Len(s) > 0 /\ \A i \in 1..Len(s) : IsLower(s[i])

\* String.prototype.toLowerCase, on the letters A-Z.
LowerOf(c) ==
  IF c \in Range(UpperChars)
    THEN LowerChars[CHOOSE i \in 1..26 : UpperChars[i] = c]
    ELSE c

toLowerCase(s) == [i \in 1..Len(s) |-> LowerOf(s[i])]

\* String.prototype.toUpperCase, on the letters a-z.
UpperOf(c) ==
  IF c \in Range(LowerChars)
    THEN UpperChars[CHOOSE i \in 1..26 : LowerChars[i] = c]
    ELSE c

toUpperCase(s) == [i \in 1..Len(s) |-> UpperOf(s[i])]

\* `${n}` for an integer n: decimal digits, a leading "-" when negative.
RECURSIVE Decimal(_)
Decimal(n) ==
  IF n < 10 THEN <<DigitChars[n + 1]>>
            ELSE Decimal(n \div 10) \o <<DigitChars[(n % 10) + 1]>>

NumberToString(n) == IF n < 0 THEN <<"-">> \o Decimal(0 - n) ELSE Decimal(n)

DigitValue(c) == (CHOOSE i \in 1..10 : DigitChars[i] = c) - 1

\* parseInt(s, 10) on a string the pattern has matched with \d+.
RECURSIVE parseInt(_)
parseInt(s) ==
  IF Len(s) = 0 THEN 0
  ELSE parseInt(SubSeq(s, 1, Len(s) - 1)) * 10 + DigitValue(s[Len(s)])

StartsWith(s, p) == Len(s) >= Len(p) /\ SubSeq(s, 1, Len(p)) = p

EndsWith(s, p) ==
  Len(s) >= Len(p) /\ SubSeq(s, Len(s) - Len(p) + 1, Len(s)) = p

DropPrefix(s, p) == SubSeq(s, Len(p) + 1, Len(s))

\* The parts of s between the occurrences of the one-character separator.
RECURSIVE SplitOn(_, _)
SplitOn(s, sep) ==
  IF \A i \in 1..Len(s) : s[i] # sep THEN <<s>>
  ELSE LET k == CHOOSE i \in 1..Len(s) :
                  s[i] = sep /\ \A j \in 1..(i - 1) : s[j] # sep
       IN <<SubSeq(s, 1, k - 1)>> \o SplitOn(SubSeq(s, k + 1, Len(s)), sep)

\* The longest prefix of s made of digits (what a greedy \d+ consumes).
DigitPrefix(s) ==
  LET n == CHOOSE k \in 0..Len(s) :
             /\ \A i \in 1..k : IsDigit(s[i])
             /\ (k < Len(s) => ~IsDigit(s[k + 1]))
  IN SubSeq(s, 1, n)

(***************************************************************************)
(* String literals of the source                                           *)
(***************************************************************************)
Dash == "-"

TvdbShowPrefix == <<"t", "v", "d", "b", "-", "s", "h", "o", "w", "-">>

TvdbSeasonPrefix ==
  <<"t", "v", "d", "b", "-", "s", "e", "a", "s", "o", "n", "-">>

TvdbEpisodePrefix ==
  <<"t", "v", "d", "b", "-", "e", "p", "i", "s", "o", "d", "e", "-">>

DefaultTag == <<"d", "e", "f", "a", "u", "l", "t">>

OfficialWord == <<"o", "f", "f", "i", "c", "i", "a", "l">>

DvdTag == <<"d", "v", "d">>

AbsoluteTag == <<"a", "b", "s", "o", "l", "u", "t", "e">>

AlternateTag == <<"a", "l", "t", "e", "r", "n", "a", "t", "e">>

RegionalTag == <<"r", "e", "g", "i", "o", "n", "a", "l">>

ShowWord == <<"s", "h", "o", "w">>

SeasonWord == <<"s", "e", "a", "s", "o", "n">>

EpisodeWord == <<"e", "p", "i", "s", "o", "d", "e">>

SeasonTitlePrefix == <<"S", "e", "a", "s", "o", "n", " ">>

EpisodeTitlePrefix == <<"E", "p", "i", "s", "o", "d", "e", " ">>

\* The provider scheme.  No code looks inside it, so it is kept as one
\* symbol rather than spelled out character by character.
TV_PROVIDER_IDENTIFIER == <<"tv.plex.agents.custom.example.thetvdb.tv">>

(***************************************************************************)
(* Identifier codec: the five anchored patterns of parseRatingKey.  Each   *)
(* operator yields the captured groups, or <<>> when String.match yields   *)
(* null.  Neither \d nor [a-z] contains "-", so a pattern of groups joined *)
(* by "-" matches exactly when splitting the rest on "-" gives the groups. *)
(***************************************************************************)
NoMatch == <<>>

\* A plausible slip: the end anchor `$` left out of the show pattern.
showMatch_unanchored(ratingKey) ==
  IF StartsWith(ratingKey, TvdbShowPrefix)
     /\ Len(DigitPrefix(DropPrefix(ratingKey, TvdbShowPrefix))) > 0
    THEN <<DigitPrefix(DropPrefix(ratingKey, TvdbShowPrefix))>>
    ELSE NoMatch

\* /^tvdb-show-(\d+)$/
showMatch(ratingKey) ==
  IF StartsWith(ratingKey, TvdbShowPrefix)
     /\ IsDigits(DropPrefix(ratingKey, TvdbShowPrefix))
    THEN <<DropPrefix(ratingKey, TvdbShowPrefix)>>
    ELSE NoMatch

\* /^tvdb-season-(\d+)-(\d+)-([a-z]+)$/
seasonTypeMatch(ratingKey) ==
  IF ~StartsWith(ratingKey, TvdbSeasonPrefix) THEN NoMatch
  ELSE LET g == SplitOn(DropPrefix(ratingKey, TvdbSeasonPrefix), Dash)
       IN IF Len(g) = 3 /\ IsDigits(g[1]) /\ IsDigits(g[2]) /\ IsLowers(g[3])
            THEN g ELSE NoMatch

\* A plausible slip: the end anchor `$` left out of the season pattern.
seasonMatch_unanchored(ratingKey) ==
  IF ~StartsWith(ratingKey, TvdbSeasonPrefix) THEN NoMatch
  ELSE LET g == SplitOn(DropPrefix(ratingKey, TvdbSeasonPrefix), Dash)
       IN IF Len(g) >= 2 /\ IsDigits(g[1]) /\ Len(DigitPrefix(g[2])) > 0
            THEN <<g[1], DigitPrefix(g[2])>> ELSE NoMatch

\* /^tvdb-season-(\d+)-(\d+)$/
seasonMatch(ratingKey) ==
  IF ~StartsWith(ratingKey, TvdbSeasonPrefix) THEN NoMatch
  ELSE LET g == SplitOn(DropPrefix(ratingKey, TvdbSeasonPrefix), Dash)
       IN IF Len(g) = 2 /\ IsDigits(g[1]) /\ IsDigits(g[2])
            THEN g ELSE NoMatch

\* A plausible slip: the episode number captured from the season group.
episodeTypeMatch_groups(ratingKey) ==
  IF ~StartsWith(ratingKey, TvdbEpisodePrefix) THEN NoMatch
  ELSE LET g == SplitOn(DropPrefix(ratingKey, TvdbEpisodePrefix), Dash)
       IN IF Len(g) = 4 /\ IsDigits(g[1]) /\ IsDigits(g[2])
             /\ IsDigits(g[3]) /\ IsLowers(g[4])
            THEN <<g[1], g[2], g[2], g[4]>> ELSE NoMatch

\* /^tvdb-episode-(\d+)-(\d+)-(\d+)-([a-z]+)$/
episodeTypeMatch(ratingKey) ==
  IF ~StartsWith(ratingKey, TvdbEpisodePrefix) THEN NoMatch
  ELSE LET g == SplitOn(DropPrefix(ratingKey, TvdbEpisodePrefix), Dash)
       IN IF Len(g) = 4 /\ IsDigits(g[1]) /\ IsDigits(g[2])
             /\ IsDigits(g[3]) /\ IsLowers(g[4])
            THEN g ELSE NoMatch

\* /^tvdb-episode-(\d+)-(\d+)-(\d+)$/
episodeMatch(ratingKey) ==
  IF ~StartsWith(ratingKey, TvdbEpisodePrefix) THEN NoMatch
  ELSE LET g == SplitOn(DropPrefix(ratingKey, TvdbEpisodePrefix), Dash)
       IN IF Len(g) = 3 /\ IsDigits(g[1]) /\ IsDigits(g[2]) /\ IsDigits(g[3])
            THEN g ELSE NoMatch

\* The ParsedRatingKey record; absent optional fields are <<>>.
ParsedRatingKey(type, seriesId, seasonNumber, episodeNumber, seasonType) ==
  [type |-> type, seriesId |-> seriesId, seasonNumber |-> seasonNumber,
   episodeNumber |-> episodeNumber, seasonType |-> seasonType]

\* MetadataService.parseRatingKey: the patterns tried in the source's order.
parseRatingKey(ratingKey) ==
  IF showMatch(ratingKey) # NoMatch THEN
    ParsedRatingKey("show", parseInt(showMatch(ratingKey)[1]), <<>>, <<>>, <<>>)
  ELSE IF seasonTypeMatch(ratingKey) # NoMatch THEN
    LET m == seasonTypeMatch(ratingKey)
    IN ParsedRatingKey("season", parseInt(m[1]), <<parseInt(m[2])>>, <<>>, m[3])
  ELSE IF seasonMatch(ratingKey) # NoMatch THEN
    LET m == seasonMatch(ratingKey)
    IN ParsedRatingKey("season", parseInt(m[1]), <<parseInt(m[2])>>, <<>>, <<>>)
  ELSE IF episodeTypeMatch(ratingKey) # NoMatch THEN
    LET m == episodeTypeMatch(ratingKey)
    IN ParsedRatingKey("episode", parseInt(m[1]), <<parseInt(m[2])>>,
                       <<parseInt(m[3])>>, m[4])
  ELSE IF episodeMatch(ratingKey) # NoMatch THEN
    LET m == episodeMatch(ratingKey)
    IN ParsedRatingKey("episode", parseInt(m[1]), <<parseInt(m[2])>>,
                       <<parseInt(m[3])>>, <<>>)
  ELSE Null

\* TVDBMapper.getSeasonTypeShortTag, on the ordering word of a season type
\* (<<>> stands for a missing season type).
getSeasonTypeShortTag(typeWord) ==
  IF typeWord = <<>> THEN DefaultTag
  ELSE LET w == toLowerCase(typeWord)
       IN CASE w = DefaultTag    -> DefaultTag
            [] w = OfficialWord  -> DefaultTag
            [] w = DvdTag        -> DvdTag
            [] w = AbsoluteTag   -> AbsoluteTag
            [] w = AlternateTag  -> AlternateTag
            [] w = RegionalTag   -> RegionalTag
            [] OTHER             -> w

\* The ratingKey templates of mapSeries, mapSeason and mapEpisode.
showRatingKey(seriesId) == TvdbShowPrefix \o NumberToString(seriesId)

seasonRatingKey(seriesId, number) ==
  TvdbSeasonPrefix \o NumberToString(seriesId) \o <<Dash>> \o NumberToString(number)

episodeRatingKey(seriesId, seasonNumber, number) ==
  TvdbEpisodePrefix \o NumberToString(seriesId) \o <<Dash>> \o NumberToString(seasonNumber)
    \o <<Dash>> \o NumberToString(number)

\* The builders of the identifier scheme; a tag of <<>> is no tag.
encodeShow(seriesId) == showRatingKey(seriesId)

encodeSeason(seriesId, seasonNumber, seasonTag) ==
  seasonRatingKey(seriesId, seasonNumber)
    \o (IF seasonTag = <<>> THEN <<>> ELSE <<Dash>> \o seasonTag)

encodeEpisode(seriesId, seasonNumber, episodeNumber, seasonTag) ==
  episodeRatingKey(seriesId, seasonNumber, episodeNumber)
    \o (IF seasonTag = <<>> THEN <<>> ELSE <<Dash>> \o seasonTag)

\* utils/guid constructGuid: "{scheme}://{entityTypeWord}/{identifier}".
constructGuid(scheme, typeWord, ratingKey) ==
  scheme \o <<":", "/", "/">> \o typeWord \o <<"/">> \o ratingKey

(***************************************************************************)
(* Bounds of the model                                                     *)
(***************************************************************************)
\* Longest season list of a catalog.
MaxSeasons == 2

\* Largest season number and episode number asked for in an identifier.
MaxSeasonNumber == 2

MaxEpisodeNumber == 2

\* Largest containerStart and containerSize of a request.
MaxStart == 2

MaxSize == 1

\* Episodes of the long season (longer than the default page of 20).
LongSeasonLen == 21

(***************************************************************************)
(* The upstream catalog (what TVDBClient returns).  One series, whose      *)
(* season list is drawn from a pool of seasons; an extended season carries *)
(* its episode list.  A list the code reads as `x?.map(..) || []` or       *)
(* `x && x.length > 0` is <<>> when it is null, undefined or empty.        *)
(***************************************************************************)
SeriesName == <<"A", "T">>

SeriesImage == <<"a", "t", ".", "j", "p", "g">>

SpecialsName == <<"S", "p", "e", "c", "i", "a", "l", "s">>

DvdName == <<"D", "V", "D", " ", "1">>

SeasonImage == <<"s", ".", "j", "p", "g">>

EpisodeName == <<"P", "i", "l", "o", "t">>

EpisodeImage == <<"e", ".", "j", "p", "g">>

RatingName == <<"T", "V", "-", "P", "G">>

RoleName == <<"F", "i", "n", "n">>

PersonName == <<"J", "e", "r", "e", "m", "y">>

TVDBEpisode(id, seasonNumber, number, name, image) ==
  [id |-> id, seasonNumber |-> seasonNumber, number |-> number,
   name |-> name, image |-> image, runtime |-> <<>>, characters |-> <<>>]

\* TVDBCharacter: the fields the mapper reads.
TVDBCharacter(type, sort, name, personName, personImgURL) ==
  [type |-> type, sort |-> sort, name |-> name, personName |-> personName,
   personImgURL |-> personImgURL]

\* TVDBContentRating: the fields the mapper reads.
TVDBContentRating(country, name) == [country |-> country, name |-> name]

TVDBArtwork(type, image) == [type |-> type, image |-> image]

TVDBSeasonExtended(id, typeWord, number, name, image, episodes, artwork) ==
  [id |-> id, type |-> [type |-> typeWord], number |-> number, name |-> name,
   image |-> image, episodes |-> episodes, artwork |-> artwork]

\* TVDBArtworkType
BANNER == 1

POSTER == 2

BACKGROUND == 3

ICON == 5

CLEARLOGO == 7

\* Season ids of the pool.
SeasonIds == {20, 21, 22, 23, 24}

\* getSeasonDetails(id): the extended record of each season of the pool.
SeasonExtendedOf(id) ==
  CASE id = 20 ->
         TVDBSeasonExtended(20, OfficialWord, 0, SpecialsName, <<>>,
           <<TVDBEpisode(100, 0, 1, <<>>, EpisodeImage)>>,
           <<>>)
    [] id = 21 ->
         TVDBSeasonExtended(21, OfficialWord, 1, <<>>, SeasonImage,
           <<TVDBEpisode(101, 1, 1, EpisodeName, EpisodeImage),
             TVDBEpisode(102, 1, 2, <<>>, <<>>)>>,
           <<TVDBArtwork(POSTER, SeasonImage), TVDBArtwork(ICON, SeasonImage),
             TVDBArtwork(BANNER, SeriesImage)>>)
    [] id = 22 ->
         TVDBSeasonExtended(22, DefaultTag, 2, <<>>, <<>>,
           [i \in 1..LongSeasonLen |-> TVDBEpisode(200 + i, 2, i, <<>>, <<>>)],
           <<>>)
    [] id = 23 ->
         \* a DVD-order season: its second episode is numbered by air order
         TVDBSeasonExtended(23, DvdTag, 1, DvdName, SeasonImage,
           <<TVDBEpisode(102, 1, 1, <<>>, <<>>),
             TVDBEpisode(201, 2, 1, <<>>, <<>>)>>,
           <<>>)
    [] id = 24 ->
         TVDBSeasonExtended(24, OfficialWord, 0 - 1, <<>>, <<>>, <<>>, <<>>)

\* The base record of a season, as listed in series.seasons and returned by
\* getSeasonByNumber: no episodes, no artwork.
SeasonBaseOf(id) ==
  [SeasonExtendedOf(id) EXCEPT !.episodes = <<>>, !.artwork = <<>>]

\* getEpisodeDetails(id): the extended record of an episode, numbered by
\* air order whatever ordering it was found through.
EpisodeExtendedOf(id) ==
  CASE id = 100 -> TVDBEpisode(100, 0, 1, <<>>, EpisodeImage)
    [] id = 101 -> TVDBEpisode(101, 1, 1, EpisodeName, EpisodeImage)
    [] id = 102 -> TVDBEpisode(102, 1, 2, <<>>, <<>>)
    [] id > 200 -> TVDBEpisode(id, 2, id - 200, <<>>, <<>>)

\* Sequences of distinct seasons of the pool, at most MaxSeasons long.
RECURSIVE SeasonLists(_)
SeasonLists(n) ==
  IF n = 0 THEN {<<>>}
  ELSE LET shorter == SeasonLists(n - 1)
       IN shorter \cup
          { Append(l, id) : l \in { x \in shorter : Len(x) = n - 1 },
                            id \in SeasonIds }

DistinctSeasonLists ==
  { l \in SeasonLists(MaxSeasons) :
      \A i, j \in 1..Len(l) : i # j => l[i] # l[j] }

\* The catalogs: the series' id and name are fixed, its season list varies;
\* the series has an image, or has none and at most one season.
Catalogs ==
  [id : {12}, image : {SeriesImage}, seasons : DistinctSeasonLists]
    \cup [id : {12}, image : {<<>>},
          seasons : { l \in DistinctSeasonLists : Len(l) <= 1 }]

\* The TVDBSeriesExtended record of catalog c.
SeriesOf(c) ==
  [id |-> c.id, name |-> SeriesName, image |-> c.image,
   seasons |-> [i \in 1..Len(c.seasons) |-> SeasonBaseOf(c.seasons[i])],
   artworks |-> <<TVDBArtwork(BACKGROUND, SeriesImage),
                  TVDBArtwork(CLEARLOGO, SeriesImage)>>,
   averageRuntime |-> <<11>>,
   contentRatings |-> <<TVDBContentRating(<<"u", "s", "a">>, RatingName)>>,
   characters |-> <<TVDBCharacter(3, 0, RoleName, PersonName, <<>>)>>]

\* The ordering a season-type word belongs to, as the catalog client reads
\* an ordering tag: "default" is the official (air) order.
OrderingOf(typeWord) ==
  IF typeWord \in {DefaultTag, OfficialWord} THEN DefaultTag ELSE typeWord

FirstWhere(seq, P(_)) ==
  IF \E i \in 1..Len(seq) : P(seq[i])
    THEN seq[CHOOSE i \in 1..Len(seq) :
               P(seq[i]) /\ \A j \in 1..(i - 1) : ~P(seq[j])]
    ELSE Null

\* TVDBClient.getSeriesDetails: the series, or Null when the call rejects
\* because there is no such series.
getSeriesDetails(c, seriesId) ==
  IF seriesId = c.id THEN SeriesOf(c) ELSE Null

\* TVDBClient.getSeasonByNumber(seriesId, number, ordering) -> Season | null
getSeasonByNumber(c, seriesId, seasonNumber, seasonType) ==
  IF seriesId # c.id THEN Null
  ELSE LET Wanted(s) == s.number = seasonNumber
                        /\ OrderingOf(s.type.type) = seasonType
       IN FirstWhere(SeriesOf(c).seasons, Wanted)

\* TVDBClient.getSeasonDetails(seasonId) -> SeasonExtended
getSeasonDetails(c, seasonId) == SeasonExtendedOf(seasonId)

RECURSIVE Flatten(_)
Flatten(seqs) ==
  IF Len(seqs) = 0 THEN <<>> ELSE Head(seqs) \o Flatten(Tail(seqs))

\* TVDBClient.getEpisodeByNumber(seriesId, season, episode, ordering)
\*   -> Episode | null: the episode listed with these numbers under the
\* seasons of that ordering.
getEpisodeByNumber(c, seriesId, seasonNumber, episodeNumber, seasonType) ==
  IF seriesId # c.id THEN Null
  ELSE LET InOrdering(id) ==
             OrderingOf(SeasonExtendedOf(id).type.type) = seasonType
           listed == Flatten([i \in 1..Len(c.seasons) |->
                       IF InOrdering(c.seasons[i])
                         THEN SeasonExtendedOf(c.seasons[i]).episodes
                         ELSE <<>>])
           Wanted(e) == e.seasonNumber = seasonNumber
                        /\ e.number = episodeNumber
       IN FirstWhere(listed, Wanted)

\* TVDBClient.getEpisodeDetails(episodeId) -> EpisodeExtended
getEpisodeDetails(c, episodeId) == EpisodeExtendedOf(episodeId)

\* TVDBClient.getSeriesArtworks(seriesId) -> Artwork[]
getSeriesArtworks(c, seriesId) == SeriesOf(c).artworks

\* TVDBClient.getSeasonArtworks(seasonId) -> Artwork[]
getSeasonArtworks(c, seasonId) == SeasonExtendedOf(seasonId).artwork

(***************************************************************************)
(* Entity mapper (TVDBMapper)                                              *)
(***************************************************************************)
\* `a || b` on optional strings.
OrElse(a, b) == IF a # <<>> THEN a ELSE b

\* Array.prototype.filter and Array.prototype.map.
Filter(seq, P(_)) == SelectSeq(seq, P)

Map(seq, F(_)) == [i \in 1..Len(seq) |-> F(seq[i])]

\* A plausible slip: the seasons of every ordering are kept.
IsCanonical_any(s) == s.type.type = s.type.type

\* s.type.type === 'default' || s.type.type === 'official'
IsCanonical(s) == s.type.type = DefaultTag \/ s.type.type = OfficialWord

\* `Season ${number}` and `Episode ${number}`
SeasonTitle(number) == SeasonTitlePrefix \o NumberToString(number)

EpisodeTitle(number) == EpisodeTitlePrefix \o NumberToString(number)

\* `x ? x * 60 * 1000 : undefined` on a `number | null` of minutes.
DurationOf(minutes) ==
  IF minutes # <<>> /\ minutes[1] # 0
    THEN <<minutes[1] * 60 * 1000>>
    ELSE <<>>

\* "Type 3 = Actor"
ACTOR == 3

\* actors.slice(0, 1000)
RoleLimit == 1000

\* The member at index j comes before the member at index i once
\* Array.prototype.sort has run with the comparator (a, b) => a.sort - b.sort:
\* ascending, and stable.
SortsBefore(seq, j, i) ==
  \/ seq[j].sort < seq[i].sort
  \/ seq[j].sort = seq[i].sort /\ j < i

\* The array whose member at position[i] is seq[i].
Place(seq, position) ==
  [k \in 1..Len(seq) |-> seq[CHOOSE i \in 1..Len(seq) : position[i] = k]]

\* Array.prototype.sort with that comparator: the contents of the array
\* after the call.  (The table of positions is built once, as a sequence.)
SortBySort(seq) ==
  Place(seq, <<>> \o [i \in 1..Len(seq) |->
                       Cardinality({ j \in 1..Len(seq) : SortsBefore(seq, j, i) }) + 1])

\* c => c.type === 3
IsActor(c) == c.type = ACTOR

\* The arrays are kept in a heap, the sequence of the arrays that exist; an
\* array is named by its index in it.
\* array.filter(c => c.type === 3): a new array, the last of the heap.
FilterActors(heap, array) == Append(heap, Filter(heap[array], IsActor))

\* array.sort((a, b) => a.sort - b.sort): reorders the array it is called on.
SortAt(heap, array) == [heap EXCEPT ![array] = SortBySort(@)]

\* actors.slice(0, 1000)
Kept(actors) ==
  IF Len(actors) <= RoleLimit THEN actors ELSE SubSeq(actors, 1, RoleLimit)

\* The Person of the member at index k - 1.
PersonOf(member, k) ==
  [tag |-> member.personName, role |-> member.name, order |-> k,
   thumb |-> member.personImgURL]

\* A plausible slip: the upstream sort value is passed on as the order.
RolesOf_sortAsOrder(actors) ==
  [k \in 1..Len(actors) |-> PersonOf(actors[k], actors[k].sort)]

\* .map((member, index) => ({ ..., order: index + 1, ... }))
RolesOf(actors) == [k \in 1..Len(actors) |-> PersonOf(actors[k], k)]

\* What mapCast leaves: the Role list made of the last array of the heap,
\* and the heap.
CastOf(heap) == [heap |-> heap, value |-> RolesOf(Kept(heap[Len(heap)]))]

\* A plausible slip: the upstream list is sorted, then filtered.
mapCast_heap_inPlace(heap, characters) ==
  IF Len(heap[characters]) = 0
    THEN [heap |-> heap, value |-> Null]
    ELSE CastOf(FilterActors(SortAt(heap, characters), characters))

\* TVDBMapper.mapCast over the arrays it touches; characters is the index
\* of the upstream list in the heap.  Gives the Role list (Null for
\* undefined) and the heap after the call.
mapCast_heap(heap, characters) ==
  IF Len(heap[characters]) = 0
    THEN [heap |-> heap, value |-> Null]
    ELSE CastOf(SortAt(FilterActors(heap, characters), Len(heap) + 1))

\* The Role list mapCast returns for the upstream list characters.
mapCast(characters) == mapCast_heap(<<characters>>, 1).value

\* The upstream list characters after mapCast ran on it.
CharactersAfter(characters) == mapCast_heap(<<characters>>, 1).heap[1]

US == <<"U", "S">>

USA == <<"U", "S", "A">>

\* A plausible slip: the requested country is compared as it was written.
getContentRating_caseSensitive(series, requested) ==
  LET country == IF requested = <<>> THEN US ELSE requested
      isUS == country = US \/ country = USA
      Matches(r) ==
        \/ r.country = country
        \/ isUS /\ r.country = USA
        \/ isUS /\ r.country = US
      rating == FirstWhere(series.contentRatings, Matches)
  IN IF rating = Null THEN <<>>
     ELSE IF isUS THEN rating.name
     ELSE OrElse(toLowerCase(rating.country), toLowerCase(country))
            \o <<"/">> \o rating.name

\* TVDBMapper.getContentRating; requested is <<>> when options.country is
\* not given (the parameter's default is 'US'), and a missing contentRatings
\* list is the empty one (both give undefined, <<>>).
getContentRating(series, requested) ==
  LET country == IF requested = <<>> THEN US ELSE requested
      normalizedCountry == toUpperCase(country)
      isUS == normalizedCountry = US \/ normalizedCountry = USA
      Matches(r) ==
        \/ r.country # <<>> /\ toUpperCase(r.country) = normalizedCountry
        \/ isUS /\ toUpperCase(r.country) = USA
        \/ isUS /\ toUpperCase(r.country) = US
      rating == FirstWhere(series.contentRatings, Matches)
  IN IF rating = Null THEN <<>>
     ELSE IF isUS THEN rating.name
     ELSE OrElse(toLowerCase(rating.country), toLowerCase(country))
            \o <<"/">> \o rating.name

\* Array.prototype.find: the first member that satisfies P, Null when none.
find(seq, P(_)) ==
  IF \E i \in 1..Len(seq) : P(seq[i])
    THEN seq[CHOOSE i \in 1..Len(seq) :
               P(seq[i]) /\ \A j \in 1..(i - 1) : ~P(seq[j])]
    ELSE Null

\* "1 = Director", "2 = Writer", "4 = Producer"
DIRECTOR == 1

WRITER == 2

PRODUCER == 4

\* { tag: member.personName, thumb: member.personImgURL || undefined }
CrewPerson(member) ==
  [tag |-> member.personName, thumb |-> member.personImgURL]

\* What forEach pushes on one of the three arrays: the persons of the
\* members whose type is among codes, in upstream order.
Pushed(characters, codes) ==
  LET Chosen(member) == member.type \in codes
  IN Map(Filter(characters, Chosen), CrewPerson)

\* `array.length > 0 ? array : undefined`: the optional list, <<>> when
\* undefined and <<array>> otherwise.
NonEmpty(array) == IF Len(array) > 0 THEN <<array>> ELSE <<>>

\* A plausible slip: `case 4` without its break, falling into `case 2`.
mapCrew_fallthrough(characters) ==
  IF Len(characters) = 0
    THEN [Director |-> <<>>, Producer |-> <<>>, Writer |-> <<>>]
    ELSE [Director |-> NonEmpty(Pushed(characters, {DIRECTOR})),
          Producer |-> NonEmpty(Pushed(characters, {PRODUCER})),
          Writer |-> NonEmpty(Pushed(characters, {PRODUCER, WRITER}))]

\* TVDBMapper.mapCrew
mapCrew(characters) ==
  IF Len(characters) = 0
    THEN [Director |-> <<>>, Producer |-> <<>>, Writer |-> <<>>]
    ELSE [Director |-> NonEmpty(Pushed(characters, {DIRECTOR})),
          Producer |-> NonEmpty(Pushed(characters, {PRODUCER})),
          Writer |-> NonEmpty(Pushed(characters, {WRITER}))]

\* { type, url: artwork.image, alt: title }
ImageOf(type, artwork, title) ==
  [type |-> type, url |-> artwork.image, alt |-> title]

\* The images mapImages pushes for the artwork it found of one kind.
Found(type, artwork, title) ==
  IF artwork # Null THEN <<ImageOf(type, artwork, title)>> ELSE <<>>

\* A plausible slip: the banner is pushed whether or not a background was
\* found.
mapImages_bannerAlways(artworks, title) ==
  LET IsPoster(a) == a.type = POSTER
      IsBackground(a) == a.type = BACKGROUND
      IsClearLogo(a) == a.type = CLEARLOGO
      IsBanner(a) == a.type = BANNER
      images == Found("coverPoster", find(artworks, IsPoster), title)
                  \o Found("background", find(artworks, IsBackground), title)
                  \o Found("clearLogo", find(artworks, IsClearLogo), title)
                  \o Found("background", find(artworks, IsBanner), title)
  IN IF Len(artworks) = 0 THEN <<>> ELSE NonEmpty(images)

\* TVDBMapper.mapImages: an optional list.
mapImages(artworks, title) ==
  LET IsPoster(a) == a.type = POSTER
      IsBackground(a) == a.type = BACKGROUND
      IsClearLogo(a) == a.type = CLEARLOGO
      IsBanner(a) == a.type = BANNER
      background == find(artworks, IsBackground)
      images == Found("coverPoster", find(artworks, IsPoster), title)
                  \o Found("background", background, title)
                  \o Found("clearLogo", find(artworks, IsClearLogo), title)
                  \o (IF background = Null
                        THEN Found("background", find(artworks, IsBanner), title)
                        ELSE <<>>)
  IN IF Len(artworks) = 0 THEN <<>> ELSE NonEmpty(images)

\* metadata.Image of an episode: the snapshot, when the episode has an image.
SnapshotOf(episode) ==
  IF episode.image # <<>>
    THEN << <<[type |-> "snapshot", url |-> episode.image,
               alt |-> OrElse(episode.name, EpisodeTitle(episode.number))]>> >>
    ELSE <<>>

\* A plausible slip: parentIndex taken from the episode's own number.
mapEpisode_parentIndex(episode, seriesId, showTitle, showGuid, seasonTitle, seasonGuid, showThumb, seasonThumb) ==
  [type |-> "episode",
   ratingKey |-> episodeRatingKey(seriesId, episode.seasonNumber, episode.number),
   guid |-> constructGuid(TV_PROVIDER_IDENTIFIER, EpisodeWord,
              episodeRatingKey(seriesId, episode.seasonNumber, episode.number)),
   title |-> OrElse(episode.name, EpisodeTitle(episode.number)),
   thumb |-> episode.image,
   duration |-> DurationOf(episode.runtime),
   Role |-> mapCast(episode.characters),
   Image |-> SnapshotOf(episode),
   Director |-> mapCrew(episode.characters).Director,
   Producer |-> mapCrew(episode.characters).Producer,
   Writer |-> mapCrew(episode.characters).Writer,
   index |-> episode.number,
   parentIndex |-> episode.number,
   parentRatingKey |-> seasonRatingKey(seriesId, episode.seasonNumber),
   parentGuid |-> seasonGuid,
   parentType |-> "season",
   parentTitle |-> seasonTitle,
   parentThumb |-> seasonThumb,
   grandparentRatingKey |-> showRatingKey(seriesId),
   grandparentGuid |-> showGuid,
   grandparentType |-> "show",
   grandparentTitle |-> showTitle,
   grandparentThumb |-> showThumb]

\* TVDBMapper.mapEpisode
mapEpisode(episode, seriesId, showTitle, showGuid, seasonTitle, seasonGuid, showThumb, seasonThumb) ==
  [type |-> "episode",
   ratingKey |-> episodeRatingKey(seriesId, episode.seasonNumber, episode.number),
   guid |-> constructGuid(TV_PROVIDER_IDENTIFIER, EpisodeWord,
              episodeRatingKey(seriesId, episode.seasonNumber, episode.number)),
   title |-> OrElse(episode.name, EpisodeTitle(episode.number)),
   thumb |-> episode.image,
   duration |-> DurationOf(episode.runtime),
   Role |-> mapCast(episode.characters),
   Image |-> SnapshotOf(episode),
   Director |-> mapCrew(episode.characters).Director,
   Producer |-> mapCrew(episode.characters).Producer,
   Writer |-> mapCrew(episode.characters).Writer,
   index |-> episode.number,
   parentIndex |-> episode.seasonNumber,
   parentRatingKey |-> seasonRatingKey(seriesId, episode.seasonNumber),
   parentGuid |-> seasonGuid,
   parentType |-> "season",
   parentTitle |-> seasonTitle,
   parentThumb |-> seasonThumb,
   grandparentRatingKey |-> showRatingKey(seriesId),
   grandparentGuid |-> showGuid,
   grandparentType |-> "show",
   grandparentTitle |-> showTitle,
   grandparentThumb |-> showThumb]

\* A children container { size, Metadata }; <<>> when none is attached.
ChildrenOf(list) == <<[size |-> Len(list), Metadata |-> list]>>

\* metadata.Image of a season: the poster made of season.image, then, for
\* an extended season with artwork, whatever mapImages returns.
SeasonImages(season, title) ==
  IF Len(season.artwork) > 0
    THEN mapImages(season.artwork, title)
    ELSE IF season.image # <<>>
           THEN << <<[type |-> "coverPoster", url |-> season.image,
                      alt |-> title]>> >>
           ELSE <<>>

\* TVDBMapper.mapSeason.  The ratingKey is built from the series id and the
\* season number alone: the short tag of the season's ordering is computed
\* by the source (seasonTypeShort) and not used.
mapSeason(season, seriesId, showTitle, showGuid, showThumb, includeChildren) ==
  LET ratingKey == seasonRatingKey(seriesId, season.number)
      guid == constructGuid(TV_PROVIDER_IDENTIFIER, SeasonWord, ratingKey)
      title == OrElse(season.name, SeasonTitle(season.number))
      Child(episode) ==
        mapEpisode(episode, seriesId, showTitle, showGuid, title, guid,
                   showThumb, season.image)
  IN [type |-> "season",
      ratingKey |-> ratingKey,
      guid |-> guid,
      title |-> title,
      index |-> season.number,
      parentRatingKey |-> showRatingKey(seriesId),
      parentGuid |-> showGuid,
      parentType |-> "show",
      parentTitle |-> showTitle,
      parentThumb |-> showThumb,
      thumb |-> season.image,
      Image |-> SeasonImages(season, title),
      Children |-> IF includeChildren /\ Len(season.episodes) > 0
                     THEN ChildrenOf(Map(season.episodes, Child))
                     ELSE <<>>]

\* TVDBMapper.mapSeries
mapSeries(series, includeChildren, country) ==
  LET ratingKey == showRatingKey(series.id)
      guid == constructGuid(TV_PROVIDER_IDENTIFIER, ShowWord, ratingKey)
      Child(season) ==
        mapSeason(season, series.id, series.name, guid, series.image, FALSE)
  IN [type |-> "show",
      ratingKey |-> ratingKey,
      guid |-> guid,
      title |-> series.name,
      thumb |-> series.image,
      contentRating |-> getContentRating(series, country),
      duration |-> DurationOf(series.averageRuntime),
      Role |-> mapCast(series.characters),
      Image |-> mapImages(series.artworks, series.name),
      Director |-> mapCrew(series.characters).Director,
      Producer |-> mapCrew(series.characters).Producer,
      Writer |-> mapCrew(series.characters).Writer,
      Children |-> IF includeChildren /\ Len(series.seasons) > 0
                     THEN ChildrenOf(Map(Filter(series.seasons, IsCanonical),
                                         Child))
                     ELSE <<>>]

\* The image type of an artwork type code in mapAllImages; <<>> is "skip".
ImageTypeOf(code) ==
  CASE code = POSTER     -> <<"coverPoster">>
    [] code = BACKGROUND -> <<"background">>
    [] code = CLEARLOGO  -> <<"clearLogo">>
    [] code = BANNER     -> <<"background">>
    [] OTHER             -> <<>>

\* A plausible slip: the single-pick selection of mapImages in its place.
mapAllImages_onePerType(artworks, title) ==
  IF mapImages(artworks, title) = <<>> THEN <<>>
  ELSE mapImages(artworks, title)[1]

\* TVDBMapper.mapAllImages: a list, empty for a missing or empty artwork
\* list.
mapAllImages(artworks, title) ==
  LET Known(a) == ImageTypeOf(a.type) # <<>>
      Image(a) == [type |-> ImageTypeOf(a.type)[1], url |-> a.image,
                   alt |-> title]
  IN Map(Filter(artworks, Known), Image)

(***************************************************************************)
(* Lookup service (MetadataService): state                                 *)
(***************************************************************************)
VARIABLES
  upstream,       \* the catalog the TVDBClient answers from
  pc,             \* where the running operation is suspended
  frame,          \* the running operation's arguments and locals
  calls,          \* the upstream calls issued by the running operation
  result,         \* what the operation resolved or rejected with
  upstreamError,  \* <<e>> once an upstream call of the operation rejected
  others          \* the operations suspended at an await while this one runs

vars == <<upstream, pc, frame, calls, result, upstreamError, others>>

NoResult == [kind |-> "none"]

\* throw new Error(message).  A message is the sequence of the literal
\* parts of its template and the characters of the interpolated values.
Error(message) == [kind |-> "error", message |-> message]

\* `Invalid ratingKey format: ${ratingKey}`
InvalidFormatMessage(ratingKey) ==
  <<"Invalid ratingKey format: ">> \o ratingKey

\* `Season ${seasonNumber} not found for series ${seriesId}` (getSeason)
SeasonNotFoundMessage(seasonNumber, seriesId) ==
  <<"Season ">> \o NumberToString(seasonNumber)
    \o <<" not found for series ">> \o NumberToString(seriesId)

\* `Episode S${seasonNumber}E${episodeNumber} not found for series ${seriesId}`
EpisodeNotFoundMessage(seasonNumber, episodeNumber, seriesId) ==
  <<"Episode S">> \o NumberToString(seasonNumber) \o <<"E">>
    \o NumberToString(episodeNumber) \o <<" not found for series ">>
    \o NumberToString(seriesId)

\* `Season ${parsed.seasonNumber} not found` (getChildren)
ChildrenSeasonNotFoundMessage(seasonNumber) ==
  <<"Season ">> \o NumberToString(seasonNumber) \o <<" not found">>

\* `Cannot get children for type: ${parsed.type}`
NoChildrenMessage(type) == <<"Cannot get children for type: ", type>>

\* `Cannot get grandchildren for type: ${parsed.type}`
NoGrandchildrenMessage(type) == <<"Cannot get grandchildren for type: ", type>>

NoPaging == [containerStart |-> <<>>, containerSize |-> <<>>]

IdleFrame ==
  [op |-> "none", ratingKey |-> <<>>, built |-> Null,
   options |-> [includeChildren |-> FALSE, country |-> <<>>], paging |-> NoPaging,
   parsed |-> Null, seriesDetails |-> Null, season |-> Null,
   episode |-> Null, regularSeasons |-> <<>>, i |-> 0,
   allChildren |-> <<>>]

\* paging.containerSize ?? 20 and paging.containerStart ?? 1
DefaultContainerSize == 20

DefaultContainerStart == 1

containerSizeOf(paging) ==
  IF paging.containerSize = <<>> THEN DefaultContainerSize
                                 ELSE paging.containerSize[1]

containerStartOf(paging) ==
  IF paging.containerStart = <<>> THEN DefaultContainerStart
                                  ELSE paging.containerStart[1]

Min(a, b) == IF a < b THEN a ELSE b

Max(a, b) == IF a > b THEN a ELSE b

\* Array.prototype.slice(start, end): zero-based, half-open, a negative
\* index counted from the end, both clamped to the array.
slice(arr, start, end) ==
  LET n == Len(arr)
      from == IF start < 0 THEN Max(n + start, 0) ELSE Min(start, n)
      to == IF end < 0 THEN Max(n + end, 0) ELSE Min(end, n)
  IN SubSeq(arr, from + 1, to)

\* The single-item container of getShow, getSeason and getEpisode.
SingleContainer(metadata) ==
  [kind |-> "MediaContainer", offset |-> 0, totalSize |-> 1,
   identifier |-> TV_PROVIDER_IDENTIFIER, size |-> 1,
   Metadata |-> <<metadata>>]

\* The container of getImages.
ImagesContainer(images) ==
  [kind |-> "ImagesContainer", offset |-> 0, totalSize |-> Len(images),
   identifier |-> TV_PROVIDER_IDENTIFIER, size |-> Len(images),
   Image |-> images]

\* A plausible slip: the page cut with the one-based start as the index.
PagedContainer_oneBased(all, paging) ==
  LET startIndex == containerStartOf(paging)
      endIndex == startIndex + containerSizeOf(paging)
      paged == slice(all, startIndex, endIndex)
  IN [kind |-> "MediaContainer", offset |-> startIndex,
      totalSize |-> Len(all), identifier |-> TV_PROVIDER_IDENTIFIER,
      size |-> Len(paged), Metadata |-> paged]

\* "Apply paging (containerStart is 1-based)": the same lines close the
\* show case and the season case of getChildren, and getGrandchildren.
PagedContainer(all, paging) ==
  LET startIndex == containerStartOf(paging) - 1
      endIndex == startIndex + containerSizeOf(paging)
      paged == slice(all, startIndex, endIndex)
  IN [kind |-> "MediaContainer", offset |-> startIndex,
      totalSize |-> Len(all), identifier |-> TV_PROVIDER_IDENTIFIER,
      size |-> Len(paged), Metadata |-> paged]

\* `${TV_PROVIDER_IDENTIFIER}://show/tvdb-show-${seriesId}`
showGuidOf(seriesId) ==
  TV_PROVIDER_IDENTIFIER \o <<":", "/", "/">> \o ShowWord \o <<"/">>
    \o TvdbShowPrefix \o NumberToString(seriesId)

\* `${TV_PROVIDER_IDENTIFIER}://season/tvdb-season-${seriesId}-${seasonNumber}`
seasonGuidOf(seriesId, seasonNumber) ==
  TV_PROVIDER_IDENTIFIER \o <<":", "/", "/">> \o SeasonWord \o <<"/">>
    \o TvdbSeasonPrefix \o NumberToString(seriesId) \o <<Dash>>
    \o NumberToString(seasonNumber)

\* The errors an upstream call may reject with.
UpstreamErrors == { Error(<<"ECONNRESET">>), Error(<<"HTTP 404">>) }

Awaiting ==
  {"getShow:series", "getSeason:series", "getSeason:season",
   "getSeason:details", "getEpisode:series", "getEpisode:episode",
   "getEpisode:details", "getImages:show:series", "getImages:show:artworks",
   "getImages:season:series", "getImages:season:season",
   "getImages:season:artworks", "getImages:episode:series",
   "getImages:episode:episode", "getChildren:show:series",
   "getChildren:season:series", "getChildren:season:season",
   "getChildren:season:details", "getGrandchildren:series",
   "getGrandchildren:season"}

\* The call the operation is suspended on, and what the catalog answers.
LastCall == calls[Len(calls)]

Reply ==
  LET a == LastCall.args
  IN CASE LastCall.fn = "getSeriesDetails" -> getSeriesDetails(upstream, a[1])
       [] LastCall.fn = "getSeasonByNumber" ->
            getSeasonByNumber(upstream, a[1], a[2], a[3])
       [] LastCall.fn = "getSeasonDetails" -> getSeasonDetails(upstream, a[1])
       [] LastCall.fn = "getEpisodeByNumber" ->
            getEpisodeByNumber(upstream, a[1], a[2], a[3], a[4])
       [] LastCall.fn = "getEpisodeDetails" -> getEpisodeDetails(upstream, a[1])
       [] LastCall.fn = "getSeriesArtworks" -> getSeriesArtworks(upstream, a[1])
       [] LastCall.fn = "getSeasonArtworks" -> getSeasonArtworks(upstream, a[1])

\* `await this.tvdbClient.fn(args)`: issue the call and suspend at label.
Await(label, fn, args) ==
  /\ pc' = label
  /\ calls' = Append(calls, [fn |-> fn, args |-> args])
  /\ result' = result

\* The operation settles: it returns res, or throws it.
Finish(res) ==
  /\ pc' = "done"
  /\ result' = res
  /\ calls' = calls

(***************************************************************************)
(* Requests                                                                *)
(***************************************************************************)
\* Strings that match none of the five forms.
MalformedKeys ==
  { <<>>,                                                \* ""
    TvdbShowPrefix,                                      \* tvdb-show-
    TvdbShowPrefix \o <<"1", "a">>,                      \* tvdb-show-1a
    TvdbShowPrefix \o <<"x">>,                           \* tvdb-show-x
    TvdbShowPrefix \o <<"1", "2", "-", "1">>,            \* tvdb-show-12-1
    TvdbShowPrefix \o <<"1", "2", " ">>,                 \* "tvdb-show-12 "
    <<" ">> \o TvdbShowPrefix \o <<"1", "2">>,           \* " tvdb-show-12"
    <<"t", "m", "d", "b", "-", "s", "h", "o", "w", "-", "1", "2">>,
    <<"t", "v", "d", "b", "-", "m", "o", "v", "i", "e", "-", "1", "2">>,
    <<"T", "V", "D", "B", "-", "s", "h", "o", "w", "-", "1", "2">>,
    <<"s", "h", "o", "w", "-", "1", "2">>,
    <<"1", "2">>,
    TvdbSeasonPrefix \o <<"1", "2">>,                    \* tvdb-season-12
    TvdbSeasonPrefix \o <<"1", "2", "-">>,               \* tvdb-season-12-
    TvdbSeasonPrefix \o <<"1", "2", "-", "1", "-">>,     \* tvdb-season-12-1-
    TvdbSeasonPrefix \o <<"1", "2", "-", "-", "1">>,     \* tvdb-season-12--1
    TvdbSeasonPrefix \o <<"1", "2", "-", "1", "-", "D", "V", "D">>,
    TvdbSeasonPrefix \o <<"1", "2", "-", "1", "-", "d", "v", "d", "2">>,
    TvdbSeasonPrefix \o <<"1", "2", "-", "1", "-", "d", "v", "d", "-", "x">>,
    TvdbSeasonPrefix \o <<"1", "2", "-", "x">>,          \* tvdb-season-12-x
    TvdbSeasonPrefix \o <<"x", "-", "1">>,               \* tvdb-season-x-1
    TvdbEpisodePrefix \o <<"1", "2", "-", "1">>,         \* tvdb-episode-12-1
    TvdbEpisodePrefix \o <<"1", "2", "-", "1", "-", "x">>,
    TvdbEpisodePrefix \o <<"1", "2", "-", "1", "-", "1", "-", "1">>,
    TvdbEpisodePrefix \o <<"1", "2", "-", "1", "-", "1", "-">>,
    TvdbEpisodePrefix
      \o <<"1", "2", "-", "1", "-", "1", "-", "d", "v", "d", "-", "1">> }

\* Ordering tags asked for in an identifier (<<>>: none).
KeyTags == {<<>>, DvdTag}

\* Identifiers of the three shapes: the catalog's series 12 and a series 1
\* the catalog does not have, and one written with a leading zero.
WellFormedKeys ==
  { encodeShow(id) : id \in {1, 12} }
    \cup { TvdbShowPrefix \o <<"0", "1", "2">> }
    \cup { encodeSeason(12, n, t) : n \in 0..MaxSeasonNumber, t \in KeyTags }
    \cup { encodeEpisode(12, n, e, t) :
             n \in 0..MaxSeasonNumber, e \in 1..MaxEpisodeNumber, t \in KeyTags }

RequestKeys == WellFormedKeys \cup MalformedKeys

OptionalNumbers(lo, hi) == {<<>>} \cup { <<n>> : n \in lo..hi }

PagingOptions ==
  [containerStart : OptionalNumbers(0 - 1, MaxStart),
   containerSize : OptionalNumbers(0, MaxSize)]

(***************************************************************************)
(* getMetadata, getShow, getSeason, getEpisode                             *)
(***************************************************************************)
\* A plausible slip: the lookup always asks for the canonical ordering.
OrderingArg_default(parsed) == DefaultTag

\* seasonType || 'default'
OrderingArg(parsed) == OrElse(parsed.seasonType, DefaultTag)

\* getMetadata up to its first await: decode, then dispatch on the type.
getMetadata_call(ratingKey, includeChildren) ==
  LET parsed == parseRatingKey(ratingKey)
      entered == [IdleFrame EXCEPT !.op = "getMetadata",
                                   !.ratingKey = ratingKey]
  IN IF parsed = Null
       THEN /\ frame' = entered
            /\ Finish(Error(InvalidFormatMessage(ratingKey)))
       ELSE /\ frame' = [entered EXCEPT
                           !.parsed = parsed,
                           !.options = [includeChildren |-> includeChildren,
                                       country |-> <<>>]]
            /\ Await(CASE parsed.type = "show" -> "getShow:series"
                       [] parsed.type = "season" -> "getSeason:series"
                       [] parsed.type = "episode" -> "getEpisode:series",
                     "getSeriesDetails", <<parsed.seriesId>>)

\* getMetadata is called with any identifier and either includeChildren.
getMetadata ==
  /\ pc = "idle"
  /\ \E ratingKey \in RequestKeys, includeChildren \in BOOLEAN :
       getMetadata_call(ratingKey, includeChildren)
  /\ UNCHANGED <<upstream, upstreamError, others>>

\* getShow after getSeriesDetails
getShow_series ==
  /\ pc = "getShow:series"
  /\ Reply # Null
  /\ frame' = [frame EXCEPT !.seriesDetails = Reply]
  /\ Finish(SingleContainer(mapSeries(Reply, frame.options.includeChildren,
                                    frame.options.country)))
  /\ UNCHANGED <<upstream, upstreamError, others>>

\* getSeason after getSeriesDetails
getSeason_series ==
  /\ pc = "getSeason:series"
  /\ Reply # Null
  /\ frame' = [frame EXCEPT !.seriesDetails = Reply]
  /\ Await("getSeason:season", "getSeasonByNumber",
           <<frame.parsed.seriesId, frame.parsed.seasonNumber[1],
             OrderingArg(frame.parsed)>>)
  /\ UNCHANGED <<upstream, upstreamError, others>>

\* The season entity getSeason returns for the record seasonDetails.
SeasonResponse(seasonDetails) ==
  SingleContainer(
    mapSeason(seasonDetails, frame.parsed.seriesId, frame.seriesDetails.name,
              showGuidOf(frame.parsed.seriesId), frame.seriesDetails.image,
              frame.options.includeChildren))

\* A plausible slip: the extended season is fetched whether or not the
\* children are asked for.
getSeason_season_alwaysDetails ==
  /\ pc = "getSeason:season"
  /\ frame' = [frame EXCEPT !.season = Reply]
  /\ IF Reply = Null
       THEN Finish(Error(SeasonNotFoundMessage(frame.parsed.seasonNumber[1],
                                               frame.parsed.seriesId)))
       ELSE Await("getSeason:details", "getSeasonDetails", <<Reply.id>>)
  /\ UNCHANGED <<upstream, upstreamError, others>>

\* getSeason after getSeasonByNumber
getSeason_season ==
  /\ pc = "getSeason:season"
  /\ frame' = [frame EXCEPT !.season = Reply]
  /\ IF Reply = Null
       THEN Finish(Error(SeasonNotFoundMessage(frame.parsed.seasonNumber[1],
                                               frame.parsed.seriesId)))
       ELSE IF frame.options.includeChildren
         THEN Await("getSeason:details", "getSeasonDetails", <<Reply.id>>)
         ELSE Finish(SeasonResponse(Reply))
  /\ UNCHANGED <<upstream, upstreamError, others>>

\* getSeason after getSeasonDetails
getSeason_details ==
  /\ pc = "getSeason:details"
  /\ frame' = frame
  /\ Finish(SeasonResponse(Reply))
  /\ UNCHANGED <<upstream, upstreamError, others>>

\* getEpisode after getSeriesDetails
getEpisode_series ==
  /\ pc = "getEpisode:series"
  /\ Reply # Null
  /\ frame' = [frame EXCEPT !.seriesDetails = Reply]
  /\ Await("getEpisode:episode", "getEpisodeByNumber",
           <<frame.parsed.seriesId, frame.parsed.seasonNumber[1],
             frame.parsed.episodeNumber[1], OrderingArg(frame.parsed)>>)
  /\ UNCHANGED <<upstream, upstreamError, others>>

\* getEpisode after getEpisodeByNumber
getEpisode_episode ==
  /\ pc = "getEpisode:episode"
  /\ frame' = [frame EXCEPT !.episode = Reply]
  /\ IF Reply = Null
       THEN Finish(Error(EpisodeNotFoundMessage(frame.parsed.seasonNumber[1],
                                                frame.parsed.episodeNumber[1],
                                                frame.parsed.seriesId)))
       ELSE Await("getEpisode:details", "getEpisodeDetails", <<Reply.id>>)
  /\ UNCHANGED <<upstream, upstreamError, others>>

\* getEpisode after getEpisodeDetails
getEpisode_details ==
  /\ pc = "getEpisode:details"
  /\ frame' = frame
  /\ Finish(SingleContainer(
       mapEpisode(Reply, frame.parsed.seriesId, frame.seriesDetails.name,
                  showGuidOf(frame.parsed.seriesId),
                  SeasonTitle(frame.parsed.seasonNumber[1]),
                  seasonGuidOf(frame.parsed.seriesId,
                               frame.parsed.seasonNumber[1]),
                  frame.seriesDetails.image, <<>>)))
  /\ UNCHANGED <<upstream, upstreamError, others>>

(***************************************************************************)
(* getImages                                                               *)
(***************************************************************************)
\* getImages up to its first await.
getImages_call(ratingKey) ==
  LET parsed == parseRatingKey(ratingKey)
      entered == [IdleFrame EXCEPT !.op = "getImages",
                                   !.ratingKey = ratingKey]
  IN IF parsed = Null
       THEN /\ frame' = entered
            /\ Finish(Error(InvalidFormatMessage(ratingKey)))
       ELSE /\ frame' = [entered EXCEPT !.parsed = parsed]
            /\ Await(CASE parsed.type = "show" -> "getImages:show:series"
                       [] parsed.type = "season" -> "getImages:season:series"
                       [] parsed.type = "episode" -> "getImages:episode:series",
                     "getSeriesDetails", <<parsed.seriesId>>)

\* getImages is called with any identifier.
getImages ==
  /\ pc = "idle"
  /\ \E ratingKey \in RequestKeys :
       getImages_call(ratingKey)
  /\ UNCHANGED <<upstream, upstreamError, others>>

\* case 'show', after getSeriesDetails
getImages_show_series ==
  /\ pc = "getImages:show:series"
  /\ Reply # Null
  /\ frame' = [frame EXCEPT !.seriesDetails = Reply]
  /\ Await("getImages:show:artworks", "getSeriesArtworks",
           <<frame.parsed.seriesId>>)
  /\ UNCHANGED <<upstream, upstreamError, others>>

\* case 'show', after getSeriesArtworks
getImages_show_artworks ==
  /\ pc = "getImages:show:artworks"
  /\ frame' = frame
  /\ Finish(ImagesContainer(mapAllImages(Reply, frame.seriesDetails.name)))
  /\ UNCHANGED <<upstream, upstreamError, others>>

\* case 'season', after getSeriesDetails
getImages_season_series ==
  /\ pc = "getImages:season:series"
  /\ Reply # Null
  /\ frame' = [frame EXCEPT !.seriesDetails = Reply]
  /\ Await("getImages:season:season", "getSeasonByNumber",
           <<frame.parsed.seriesId, frame.parsed.seasonNumber[1],
             OrderingArg(frame.parsed)>>)
  /\ UNCHANGED <<upstream, upstreamError, others>>

\* case 'season', after getSeasonByNumber: `if (season) { ... } break;`
getImages_season_season ==
  /\ pc = "getImages:season:season"
  /\ frame' = [frame EXCEPT !.season = Reply]
  /\ IF Reply # Null
       THEN Await("getImages:season:artworks", "getSeasonArtworks", <<Reply.id>>)
       ELSE Finish(ImagesContainer(<<>>))
  /\ UNCHANGED <<upstream, upstreamError, others>>

\* case 'season', after getSeasonArtworks
getImages_season_artworks ==
  /\ pc = "getImages:season:artworks"
  /\ frame' = frame
  /\ Finish(ImagesContainer(
       mapAllImages(Reply,
         frame.seriesDetails.name \o <<" ", "-", " ">> \o SeasonTitlePrefix
           \o NumberToString(frame.parsed.seasonNumber[1]))))
  /\ UNCHANGED <<upstream, upstreamError, others>>

\* case 'episode', after getSeriesDetails
getImages_episode_series ==
  /\ pc = "getImages:episode:series"
  /\ Reply # Null
  /\ frame' = [frame EXCEPT !.seriesDetails = Reply]
  /\ Await("getImages:episode:episode", "getEpisodeByNumber",
           <<frame.parsed.seriesId, frame.parsed.seasonNumber[1],
             frame.parsed.episodeNumber[1], OrderingArg(frame.parsed)>>)
  /\ UNCHANGED <<upstream, upstreamError, others>>

\* case 'episode', after getEpisodeByNumber: `if (episode?.image) { ... }`
getImages_episode_episode ==
  /\ pc = "getImages:episode:episode"
  /\ frame' = [frame EXCEPT !.episode = Reply]
  /\ Finish(ImagesContainer(
       IF Reply # Null /\ Reply.image # <<>>
         THEN <<[type |-> "snapshot", url |-> Reply.image,
                 alt |-> frame.seriesDetails.name \o <<" ", "-", " ", "S">>
                           \o NumberToString(frame.parsed.seasonNumber[1])
                           \o <<"E">>
                           \o NumberToString(frame.parsed.episodeNumber[1])]>>
         ELSE <<>>))
  /\ UNCHANGED <<upstream, upstreamError, others>>

(***************************************************************************)
(* getChildren                                                             *)
(***************************************************************************)
\* A plausible slip: an episode identifier handled by the season case.
ChildrenCases_withEpisode == {"show", "season", "episode"}

\* The case labels of the switch of getChildren; any other type falls to
\* its `default:`.
ChildrenCases == {"show", "season"}

\* getChildren up to its first await.
getChildren_call(ratingKey, paging) ==
  LET parsed == parseRatingKey(ratingKey)
      entered == [IdleFrame EXCEPT !.op = "getChildren",
                                   !.ratingKey = ratingKey]
  IN IF parsed = Null
       THEN /\ frame' = entered
            /\ Finish(Error(InvalidFormatMessage(ratingKey)))
       ELSE IF parsed.type \notin ChildrenCases
         THEN /\ frame' = [entered EXCEPT !.parsed = parsed]
              /\ Finish(Error(NoChildrenMessage(parsed.type)))
         ELSE /\ frame' = [entered EXCEPT !.parsed = parsed,
                                          !.paging = paging]
              /\ Await(IF parsed.type = "show"
                         THEN "getChildren:show:series"
                         ELSE "getChildren:season:series",
                       "getSeriesDetails", <<parsed.seriesId>>)

\* getChildren is called with any identifier and paging.
getChildren ==
  /\ pc = "idle"
  /\ \E ratingKey \in RequestKeys, paging \in PagingOptions :
       getChildren_call(ratingKey, paging)
  /\ UNCHANGED <<upstream, upstreamError, others>>

\* A plausible slip: the second filter written as `s.number >= 1`.
allSeasonsOf_fromOne(seriesDetails, seriesId) ==
  LET Regular(s) == s.number >= 1
      Mapped(season) ==
        mapSeason(season, seriesId, seriesDetails.name, showGuidOf(seriesId),
                  seriesDetails.image, FALSE)
  IN Map(Filter(Filter(seriesDetails.seasons, IsCanonical), Regular), Mapped)

\* "Map all seasons (filter to default/official type)"
allSeasonsOf(seriesDetails, seriesId) ==
  LET NonNegative(s) == s.number >= 0
      Mapped(season) ==
        mapSeason(season, seriesId, seriesDetails.name, showGuidOf(seriesId),
                  seriesDetails.image, FALSE)
  IN Map(Filter(Filter(seriesDetails.seasons, IsCanonical), NonNegative), Mapped)

\* case 'show', after getSeriesDetails
getChildren_show_series ==
  /\ pc = "getChildren:show:series"
  /\ Reply # Null
  /\ LET allSeasons == allSeasonsOf(Reply, frame.parsed.seriesId)
     IN /\ frame' = [frame EXCEPT !.seriesDetails = Reply,
                                  !.allChildren = allSeasons]
        /\ Finish(PagedContainer(allSeasons, frame.paging))
  /\ UNCHANGED <<upstream, upstreamError, others>>

\* case 'season', after getSeriesDetails
getChildren_season_series ==
  /\ pc = "getChildren:season:series"
  /\ Reply # Null
  /\ frame' = [frame EXCEPT !.seriesDetails = Reply]
  /\ Await("getChildren:season:season", "getSeasonByNumber",
           <<frame.parsed.seriesId, frame.parsed.seasonNumber[1],
             OrderingArg(frame.parsed)>>)
  /\ UNCHANGED <<upstream, upstreamError, others>>

\* case 'season', after getSeasonByNumber
getChildren_season_season ==
  /\ pc = "getChildren:season:season"
  /\ frame' = [frame EXCEPT !.season = Reply]
  /\ IF Reply = Null
       THEN Finish(Error(ChildrenSeasonNotFoundMessage(
                           frame.parsed.seasonNumber[1])))
       ELSE Await("getChildren:season:details", "getSeasonDetails", <<Reply.id>>)
  /\ UNCHANGED <<upstream, upstreamError, others>>

\* "Map all episodes" of the season case: the parent is the season found by
\* number, its URI built from the requested season number.
allEpisodesOf(seasonDetails, season, seriesDetails, seriesId, seasonNumber) ==
  LET Mapped(episode) ==
        mapEpisode(episode, seriesId, seriesDetails.name, showGuidOf(seriesId),
                   OrElse(season.name, SeasonTitle(seasonNumber)),
                   seasonGuidOf(seriesId, seasonNumber),
                   seriesDetails.image, season.image)
  IN Map(seasonDetails.episodes, Mapped)

\* case 'season', after getSeasonDetails
getChildren_season_details ==
  /\ pc = "getChildren:season:details"
  /\ LET allEpisodes == allEpisodesOf(Reply, frame.season, frame.seriesDetails,
                                      frame.parsed.seriesId,
                                      frame.parsed.seasonNumber[1])
     IN /\ frame' = [frame EXCEPT !.allChildren = allEpisodes]
        /\ Finish(PagedContainer(allEpisodes, frame.paging))
  /\ UNCHANGED <<upstream, upstreamError, others>>

(***************************************************************************)
(* getGrandchildren                                                        *)
(***************************************************************************)
\* A plausible slip: the series is fetched before the type is looked at.
getGrandchildren_call_fetchFirst(ratingKey, paging) ==
  LET parsed == parseRatingKey(ratingKey)
      entered == [IdleFrame EXCEPT !.op = "getGrandchildren",
                                   !.ratingKey = ratingKey]
  IN IF parsed = Null
       THEN /\ frame' = entered
            /\ Finish(Error(InvalidFormatMessage(ratingKey)))
       ELSE /\ frame' = [entered EXCEPT !.parsed = parsed, !.paging = paging]
            /\ Await("getGrandchildren:series", "getSeriesDetails",
                     <<parsed.seriesId>>)

\* getGrandchildren up to its first await.
getGrandchildren_call(ratingKey, paging) ==
  LET parsed == parseRatingKey(ratingKey)
      entered == [IdleFrame EXCEPT !.op = "getGrandchildren",
                                   !.ratingKey = ratingKey]
  IN IF parsed = Null
       THEN /\ frame' = entered
            /\ Finish(Error(InvalidFormatMessage(ratingKey)))
       ELSE IF parsed.type # "show"
         THEN /\ frame' = [entered EXCEPT !.parsed = parsed]
              /\ Finish(Error(NoGrandchildrenMessage(parsed.type)))
         ELSE /\ frame' = [entered EXCEPT !.parsed = parsed,
                                          !.paging = paging]
              /\ Await("getGrandchildren:series", "getSeriesDetails",
                       <<parsed.seriesId>>)

\* getGrandchildren is called with any identifier and paging.
getGrandchildren ==
  /\ pc = "idle"
  /\ \E ratingKey \in RequestKeys, paging \in PagingOptions :
       getGrandchildren_call(ratingKey, paging)
  /\ UNCHANGED <<upstream, upstreamError, others>>

\* A plausible slip: the loop takes the specials too, as getChildren does.
regularSeasonsOf_withSpecials(seriesDetails) ==
  LET Regular(s) == s.number >= 0 /\ IsCanonical(s)
  IN Filter(seriesDetails.seasons, Regular)

\* "Get all regular seasons (number >= 1)"
regularSeasonsOf(seriesDetails) ==
  LET Regular(s) == s.number >= 1 /\ IsCanonical(s)
  IN Filter(seriesDetails.seasons, Regular)

\* after getSeriesDetails: enter the loop over the regular seasons
getGrandchildren_series ==
  /\ pc = "getGrandchildren:series"
  /\ Reply # Null
  /\ LET regularSeasons == regularSeasonsOf(Reply)
     IN /\ frame' = [frame EXCEPT !.seriesDetails = Reply,
                                  !.regularSeasons = regularSeasons,
                                  !.i = 1]
        /\ IF Len(regularSeasons) = 0
             THEN Finish(PagedContainer(<<>>, frame.paging))
             ELSE Await("getGrandchildren:season", "getSeasonDetails",
                        <<regularSeasons[1].id>>)
  /\ UNCHANGED <<upstream, upstreamError, others>>

\* A plausible slip: allEpisodes kept in a field of the service instead of a
\* local of the call, so that a push also lands in the list of another
\* getGrandchildren in flight.
getGrandchildren_season_shared ==
  /\ pc = "getGrandchildren:season"
  /\ LET season == frame.regularSeasons[frame.i]
         episodes == allEpisodesOf(Reply, season, frame.seriesDetails,
                                   frame.parsed.seriesId, season.number)
         allEpisodes == frame.allChildren \o episodes
     IN /\ frame' = [frame EXCEPT !.allChildren = allEpisodes,
                                  !.i = frame.i + 1]
        /\ others' = [k \in 1..Len(others) |->
                        IF others[k].frame.op = "getGrandchildren"
                          THEN [others[k] EXCEPT
                                  !.frame.allChildren = @ \o episodes]
                          ELSE others[k]]
        /\ IF frame.i < Len(frame.regularSeasons)
             THEN Await("getGrandchildren:season", "getSeasonDetails",
                        <<frame.regularSeasons[frame.i + 1].id>>)
             ELSE Finish(PagedContainer(allEpisodes, frame.paging))
  /\ UNCHANGED <<upstream, upstreamError>>

\* A plausible slip: the loop ends as soon as the page window is filled.
getGrandchildren_season_untilPage ==
  /\ pc = "getGrandchildren:season"
  /\ LET season == frame.regularSeasons[frame.i]
         episodes == allEpisodesOf(Reply, season, frame.seriesDetails,
                                   frame.parsed.seriesId, season.number)
         allEpisodes == frame.allChildren \o episodes
         endIndex == containerStartOf(frame.paging) - 1
                       + containerSizeOf(frame.paging)
     IN /\ frame' = [frame EXCEPT !.allChildren = allEpisodes,
                                  !.i = frame.i + 1]
        /\ IF frame.i < Len(frame.regularSeasons) /\ Len(allEpisodes) < endIndex
             THEN Await("getGrandchildren:season", "getSeasonDetails",
                        <<frame.regularSeasons[frame.i + 1].id>>)
             ELSE Finish(PagedContainer(allEpisodes, frame.paging))
  /\ UNCHANGED <<upstream, upstreamError, others>>

\* one turn of the loop, after getSeasonDetails of the season at frame.i
getGrandchildren_season ==
  /\ pc = "getGrandchildren:season"
  /\ LET season == frame.regularSeasons[frame.i]
         episodes == allEpisodesOf(Reply, season, frame.seriesDetails,
                                   frame.parsed.seriesId, season.number)
         allEpisodes == frame.allChildren \o episodes
     IN /\ frame' = [frame EXCEPT !.allChildren = allEpisodes,
                                  !.i = frame.i + 1]
        /\ IF frame.i < Len(frame.regularSeasons)
             THEN Await("getGrandchildren:season", "getSeasonDetails",
                        <<frame.regularSeasons[frame.i + 1].id>>)
             ELSE Finish(PagedContainer(allEpisodes, frame.paging))
  /\ UNCHANGED <<upstream, upstreamError, others>>

(***************************************************************************)
(* Upstream failure, and the end of an operation                           *)
(***************************************************************************)
\* A plausible slip: a catch around the loop's fetch that skips the season.
Reject_swallowed(e) ==
  /\ pc \in Awaiting
  /\ upstreamError' = <<e>>
  /\ IF pc = "getGrandchildren:season"
       THEN /\ frame' = [frame EXCEPT !.i = frame.i + 1]
            /\ IF frame.i < Len(frame.regularSeasons)
                 THEN Await("getGrandchildren:season", "getSeasonDetails",
                            <<frame.regularSeasons[frame.i + 1].id>>)
                 ELSE Finish(PagedContainer(frame.allChildren, frame.paging))
       ELSE /\ frame' = frame
            /\ Finish(e)
  /\ UNCHANGED <<upstream, others>>

\* The awaited upstream call rejects with e.  No await of the service is
\* inside a try block, so the operation rejects with the same error.
Reject(e) ==
  /\ pc \in Awaiting
  /\ upstreamError' = <<e>>
  /\ frame' = frame
  /\ Finish(e)
  /\ UNCHANGED <<upstream, others>>

\* The caller has the outcome; the service is ready for the next request.
Return ==
  /\ pc = "done"
  /\ pc' = "idle"
  /\ frame' = IdleFrame
  /\ calls' = <<>>
  /\ result' = NoResult
  /\ upstreamError' = <<>>
  /\ UNCHANGED <<upstream, others>>

Init ==
  /\ upstream \in Catalogs
  /\ pc = "idle"
  /\ frame = IdleFrame
  /\ calls = <<>>
  /\ result = NoResult
  /\ upstreamError = <<>>
  /\ others = <<>>

Next ==
  \/ getMetadata
  \/ getShow_series
  \/ getSeason_series
  \/ getSeason_season
  \/ getSeason_details
  \/ getEpisode_series
  \/ getEpisode_episode
  \/ getEpisode_details
  \/ getImages
  \/ getImages_show_series
  \/ getImages_show_artworks
  \/ getImages_season_series
  \/ getImages_season_season
  \/ getImages_season_artworks
  \/ getImages_episode_series
  \/ getImages_episode_episode
  \/ getChildren
  \/ getChildren_show_series
  \/ getChildren_season_series
  \/ getChildren_season_season
  \/ getChildren_season_details
  \/ getGrandchildren
  \/ getGrandchildren_series
  \/ getGrandchildren_season
  \/ \E e \in UpstreamErrors : Reject(e)
  \/ Return

Spec == Init /\ [][Next]_vars

(***************************************************************************)
(* The identifier codec on its own: an identifier is built from its parts, *)
(* or arrives as an arbitrary string, and parseRatingKey decodes it.       *)
(***************************************************************************)
\* Largest series id, season number and episode number built into an
\* identifier.
MaxNumber == 12

\* Most "-"-separated segments after the type word of an arbitrary string.
MaxSegments == 4

\* Season type words as upstream spells them.
TypeWords ==
  { <<>>, DefaultTag, OfficialWord, DvdTag, AbsoluteTag, AlternateTag,
    RegionalTag,
    <<"O", "f", "f", "i", "c", "i", "a", "l">>,
    <<"D", "V", "D">>,
    <<"a", "l", "t", "d", "v", "d">>,
    <<"A", "l", "t", "T", "w", "o">> }

\* The ordering tags: what getSeasonTypeShortTag makes of the type words.
OrderingTags == { getSeasonTypeShortTag(w) : w \in TypeWords }

OptionalTags == {<<>>} \cup OrderingTags

\* The segments arbitrary strings are put together from.
Segments ==
  { <<>>, <<"1">>, <<"0", "7">>, DvdTag, <<"d", "2">>, <<"D">> }

RECURSIVE JoinedSegments(_)
JoinedSegments(n) ==
  IF n = 0 THEN { <<>> }
  ELSE { head \o <<Dash>> \o seg : head \in JoinedSegments(n - 1),
                                   seg \in Segments }

\* "tvdb-" and a type word, followed by up to MaxSegments segments, each
\* led by a "-".
CandidateKeys ==
  { <<"t", "v", "d", "b", Dash>> \o word \o rest :
      word \in {ShowWord, SeasonWord, EpisodeWord},
      rest \in UNION { JoinedSegments(n) : n \in 0..MaxSegments } }

BuildFrame(built, ratingKey) ==
  [IdleFrame EXCEPT !.op = "decode", !.built = built, !.ratingKey = ratingKey]

BuildShow ==
  /\ pc = "idle"
  /\ \E seriesId \in 0..MaxNumber :
       frame' = BuildFrame(ParsedRatingKey("show", seriesId, <<>>, <<>>, <<>>),
                           encodeShow(seriesId))
  /\ pc' = "decode"
  /\ UNCHANGED <<upstream, calls, result, upstreamError, others>>

BuildSeason ==
  /\ pc = "idle"
  /\ \E seriesId \in 0..MaxNumber, seasonNumber \in 0..MaxNumber,
        seasonTag \in OptionalTags :
       frame' = BuildFrame(ParsedRatingKey("season", seriesId, <<seasonNumber>>,
                                           <<>>, seasonTag),
                           encodeSeason(seriesId, seasonNumber, seasonTag))
  /\ pc' = "decode"
  /\ UNCHANGED <<upstream, calls, result, upstreamError, others>>

BuildEpisode ==
  /\ pc = "idle"
  /\ \E seriesId \in 0..MaxNumber, seasonNumber \in 0..MaxNumber,
        episodeNumber \in 0..MaxNumber, seasonTag \in OptionalTags :
       frame' = BuildFrame(ParsedRatingKey("episode", seriesId,
                                           <<seasonNumber>>, <<episodeNumber>>,
                                           seasonTag),
                           encodeEpisode(seriesId, seasonNumber, episodeNumber,
                                         seasonTag))
  /\ pc' = "decode"
  /\ UNCHANGED <<upstream, calls, result, upstreamError, others>>

\* An identifier arrives from outside.
Receive ==
  /\ pc = "idle"
  /\ \E ratingKey \in CandidateKeys \cup MalformedKeys :
       frame' = BuildFrame(Null, ratingKey)
  /\ pc' = "decode"
  /\ UNCHANGED <<upstream, calls, result, upstreamError, others>>

\* const parsed = this.parseRatingKey(ratingKey)
Decode ==
  /\ pc = "decode"
  /\ pc' = "done"
  /\ frame' = [frame EXCEPT !.parsed = parseRatingKey(frame.ratingKey)]
  /\ UNCHANGED <<upstream, calls, result, upstreamError, others>>

CodecInit ==
  /\ upstream \in { c \in Catalogs : c.seasons = <<>> /\ c.image = <<>> }
  /\ pc = "idle"
  /\ frame = IdleFrame
  /\ calls = <<>>
  /\ result = NoResult
  /\ upstreamError = <<>>
  /\ others = <<>>

CodecNext ==
  \/ BuildShow
  \/ BuildSeason
  \/ BuildEpisode
  \/ Receive
  \/ Decode
  \/ Return

SpecCodec == CodecInit /\ [][CodecNext]_vars

(***************************************************************************)
(* Properties of the identifier codec                                      *)
(***************************************************************************)
\* C1: an identifier built from a type, a series id, a season number, an
\* episode number and an ordering tag (or no tag) is decoded by
\* parseRatingKey to exactly the parts it was built from.
C1_RoundTrip ==
  (pc = "done" /\ frame.op = "decode" /\ frame.built # Null)
    => frame.parsed = frame.built

\* tvdb-episode-12-10-1-dvd was built and decoded to its parts.
C1_Witness ==
  /\ pc = "done"
  /\ frame.op = "decode"
  /\ frame.built = ParsedRatingKey("episode", 12, <<10>>, <<1>>, DvdTag)
  /\ frame.ratingKey
       = TvdbEpisodePrefix
           \o <<"1", "2", "-", "1", "0", "-", "1", "-", "d", "v", "d">>
  /\ frame.parsed = frame.built

InvalidIdentifier == Error(InvalidFormatMessage(frame.ratingKey))

\* C2: for a string that matches none of the five forms, parseRatingKey
\* yields nothing, and getMetadata, getImages, getChildren and
\* getGrandchildren end at once in the invalid-identifier failure: no
\* upstream call, no response.
C2_MalformedRejected ==
  (frame.op \in {"getMetadata", "getImages", "getChildren", "getGrandchildren"}
     /\ frame.ratingKey \in MalformedKeys)
    => /\ pc = "done"
       /\ frame.parsed = Null
       /\ result = InvalidIdentifier
       /\ calls = <<>>

\* getGrandchildren was asked for "tvdb-season-12-1-DVD" and failed.
C2_Witness ==
  /\ pc = "done"
  /\ frame.op = "getGrandchildren"
  /\ frame.ratingKey
       = TvdbSeasonPrefix \o <<"1", "2", "-", "1", "-", "D", "V", "D">>
  /\ frame.ratingKey \in MalformedKeys
  /\ result = InvalidIdentifier

\* What the five patterns make of a string, in the order the source tries
\* them, and the record each of them alone would decode it to.
PatternMatches(ratingKey) ==
  <<showMatch(ratingKey), seasonTypeMatch(ratingKey), seasonMatch(ratingKey),
    episodeTypeMatch(ratingKey), episodeMatch(ratingKey)>>

MatchingPatterns(ratingKey) ==
  { i \in 1..5 : PatternMatches(ratingKey)[i] # NoMatch }

DecodedBy(i, ratingKey) ==
  LET m == PatternMatches(ratingKey)[i]
  IN CASE i = 1 ->
            ParsedRatingKey("show", parseInt(m[1]), <<>>, <<>>, <<>>)
       [] i = 2 ->
            ParsedRatingKey("season", parseInt(m[1]), <<parseInt(m[2])>>,
                            <<>>, m[3])
       [] i = 3 ->
            ParsedRatingKey("season", parseInt(m[1]), <<parseInt(m[2])>>,
                            <<>>, <<>>)
       [] i = 4 ->
            ParsedRatingKey("episode", parseInt(m[1]), <<parseInt(m[2])>>,
                            <<parseInt(m[3])>>, m[4])
       [] i = 5 ->
            ParsedRatingKey("episode", parseInt(m[1]), <<parseInt(m[2])>>,
                            <<parseInt(m[3])>>, <<>>)

\* C3: no string matches more than one of the five patterns, so whichever
\* pattern is tried first the decoded record is the one parseRatingKey
\* yields (and none at all when no pattern matches).
C3_PatternsExclusive ==
  frame.op = "decode"
    => LET hits == MatchingPatterns(frame.ratingKey)
       IN /\ Cardinality(hits) <= 1
          /\ pc = "done"
               => /\ \A i \in hits : DecodedBy(i, frame.ratingKey) = frame.parsed
                  /\ hits = {} => frame.parsed = Null

\* The arbitrary string "tvdb-season-1-07-dvd" matched the season-with-tag
\* pattern alone.
C3_Witness ==
  /\ pc = "done"
  /\ frame.op = "decode"
  /\ frame.built = Null
  /\ frame.ratingKey
       = TvdbSeasonPrefix \o <<"1", "-", "0", "7", "-", "d", "v", "d">>
  /\ MatchingPatterns(frame.ratingKey) = {2}
  /\ frame.parsed = ParsedRatingKey("season", 1, <<7>>, <<>>, DvdTag)

(***************************************************************************)
(* Properties of the lookup service                                        *)
(***************************************************************************)
Succeeded(op) ==
  pc = "done" /\ frame.op = op /\ result.kind = "MediaContainer"

\* The identifier the scheme writes for a decoded record.
Reencoded(parsed) ==
  CASE parsed.type = "show" -> encodeShow(parsed.seriesId)
    [] parsed.type = "season" ->
         encodeSeason(parsed.seriesId, parsed.seasonNumber[1], parsed.seasonType)
    [] parsed.type = "episode" ->
         encodeEpisode(parsed.seriesId, parsed.seasonNumber[1],
                       parsed.episodeNumber[1], parsed.seasonType)

\* The upstream record the entity was mapped from carries the season and
\* episode numbers the identifier asks for.
CarriesRequestedNumbers(entity, parsed) ==
  CASE parsed.type = "show" -> TRUE
    [] parsed.type = "season" -> entity.index = parsed.seasonNumber[1]
    [] parsed.type = "episode" ->
         /\ entity.parentIndex = parsed.seasonNumber[1]
         /\ entity.index = parsed.episodeNumber[1]

\* C4: for an identifier of the scheme whose upstream records exist and
\* carry the requested numbers, getMetadata returns a container with
\* offset 0, totalSize 1, size 1 and one entity, whose type is the decoded
\* type, whose ratingKey is the requested identifier and whose guid ends
\* with "/" and that identifier.
C4_RequestedEntity ==
  (/\ Succeeded("getMetadata")
   /\ frame.ratingKey = Reencoded(frame.parsed)
   /\ Len(result.Metadata) = 1
   /\ CarriesRequestedNumbers(result.Metadata[1], frame.parsed))
    => /\ result.offset = 0
       /\ result.totalSize = 1
       /\ result.size = 1
       /\ result.Metadata[1].type = frame.parsed.type
       /\ result.Metadata[1].ratingKey = frame.ratingKey
       /\ EndsWith(result.Metadata[1].guid, <<"/">> \o frame.ratingKey)

\* C5: for an episode identifier tvdb-episode-{id}-{s}-{e} whose upstream
\* records exist, the entity getMetadata returns has parentIndex s, index e,
\* parentType season, grandparentType show, grandparentRatingKey
\* tvdb-show-{id} and the upstream series name as grandparentTitle.
C5_EpisodeLinkage ==
  (/\ Succeeded("getMetadata")
   /\ frame.parsed.type = "episode"
   /\ frame.parsed.seasonType = <<>>)
    => LET entity == result.Metadata[1]
       IN /\ Len(result.Metadata) = 1
          /\ entity.parentIndex = frame.parsed.seasonNumber[1]
          /\ entity.index = frame.parsed.episodeNumber[1]
          /\ entity.parentType = "season"
          /\ entity.grandparentType = "show"
          /\ entity.grandparentRatingKey
               = TvdbShowPrefix \o NumberToString(frame.parsed.seriesId)
          /\ entity.grandparentTitle = SeriesOf(upstream).name

\* getMetadata answered tvdb-episode-12-1-2 with episode 2 of season 1.
C5_Witness ==
  /\ Succeeded("getMetadata")
  /\ frame.ratingKey = TvdbEpisodePrefix \o <<"1", "2", "-", "1", "-", "2">>
  /\ result.Metadata[1].parentIndex = 1
  /\ result.Metadata[1].index = 2
  /\ result.Metadata[1].grandparentRatingKey = TvdbShowPrefix \o <<"1", "2">>
  /\ result.Metadata[1].grandparentTitle = SeriesName

\* The page window a request asks for.
RequestedStart ==
  IF frame.paging.containerStart = <<>> THEN 1
                                        ELSE frame.paging.containerStart[1]

RequestedSize ==
  IF frame.paging.containerSize = <<>> THEN 20
                                       ELSE frame.paging.containerSize[1]

\* The 1-based positions of the window that exist in a list of length n.
WindowPositions(n) ==
  { p \in 1..n : RequestedStart <= p /\ p <= RequestedStart + RequestedSize - 1 }

\* C6: getChildren and getGrandchildren return, of the full child list L, the
\* elements at the 1-based positions start .. start+size-1 that exist, in
\* order (start >= 1, size >= 0, defaults 1 and 20), with offset = start-1,
\* totalSize = Len(L) and size = the number returned.
C6_PageWindow ==
  (/\ Succeeded("getChildren") \/ Succeeded("getGrandchildren")
   /\ RequestedStart >= 1
   /\ RequestedSize >= 0)
    => LET L == frame.allChildren
           count == Cardinality(WindowPositions(Len(L)))
       IN /\ Len(result.Metadata) = count
          /\ \A i \in 1..count :
               result.Metadata[i] = L[RequestedStart + i - 1]
          /\ result.offset = RequestedStart - 1
          /\ result.totalSize = Len(L)
          /\ result.size = count

\* With no paging given, getChildren answered the long season with its
\* first 20 episodes of 21.
C6_Witness ==
  /\ Succeeded("getChildren")
  /\ frame.paging = NoPaging
  /\ Len(frame.allChildren) = LongSeasonLen
  /\ result.size = 20
  /\ result.totalSize = LongSeasonLen
  /\ result.offset = 0

\* The operation ended on a lookup by number that found nothing.
LookupFoundNothing ==
  /\ pc = "done"
  /\ upstreamError = <<>>
  /\ calls # <<>>
  /\ LastCall.fn \in {"getSeasonByNumber", "getEpisodeByNumber"}
  /\ Reply = Null

NotFound ==
  /\ result.kind = "error"
  /\ \E i \in 1..Len(result.message) :
       result.message[i] \in {" not found", " not found for series "}

\* C7: when getSeasonByNumber or getEpisodeByNumber returns nothing,
\* getMetadata, getChildren and getImages alike end in a not-found failure,
\* which is not the invalid-identifier failure, and return no container.
C7_NotFoundFailure ==
  (LookupFoundNothing
     /\ frame.op \in {"getMetadata", "getChildren", "getImages"})
    => NotFound /\ result # InvalidIdentifier

\* The type word an identifier of the scheme is written with.
KeyOfType(word) ==
  /\ frame.ratingKey \in WellFormedKeys
  /\ StartsWith(frame.ratingKey, <<"t", "v", "d", "b", Dash>> \o word \o <<Dash>>)

\* C8: getGrandchildren on a season or episode identifier, and getChildren on
\* an episode identifier, end at once in the unsupported-type failure with
\* no container; getChildren succeeds only for show and season identifiers.
C8_UnsupportedType ==
  /\ (frame.op = "getGrandchildren"
        /\ (KeyOfType(SeasonWord) \/ KeyOfType(EpisodeWord)))
       => /\ pc = "done"
          /\ calls = <<>>
          /\ result \in { Error(<<"Cannot get grandchildren for type: ", t>>) :
                            t \in {"season", "episode"} }
          /\ result.message[2] = frame.parsed.type
  /\ (frame.op = "getChildren" /\ KeyOfType(EpisodeWord))
       => /\ pc = "done"
          /\ calls = <<>>
          /\ result = Error(<<"Cannot get children for type: ", "episode">>)
  /\ Succeeded("getChildren")
       => KeyOfType(ShowWord) \/ KeyOfType(SeasonWord)

\* getChildren was asked for the children of tvdb-episode-12-1-1 and failed.
C8_Witness ==
  /\ pc = "done"
  /\ frame.op = "getChildren"
  /\ frame.ratingKey = TvdbEpisodePrefix \o <<"1", "2", "-", "1", "-", "1">>
  /\ result = Error(<<"Cannot get children for type: ", "episode">>)
  /\ calls = <<>>

\* C9: when an upstream call of an operation fails, the operation ends in
\* that same error at that step: no response, no further upstream call, the
\* failed call not issued again.
C9_FailurePropagates ==
  [][/\ (upstreamError = <<>> /\ upstreamError' # <<>>)
          => /\ pc \in Awaiting
             /\ pc' = "done"
             /\ result' = upstreamError'[1]
             /\ result'.kind = "error"
             /\ calls' = calls
     /\ upstreamError # <<>>
          => /\ pc = "done"
             /\ result = upstreamError[1]
             /\ Len(calls') <= Len(calls)]_vars

\* getGrandchildren had fetched the episodes of one season when the fetch of
\* the next failed: it ended in that error, the episodes dropped.
C9_Witness ==
  /\ pc = "done"
  /\ frame.op = "getGrandchildren"
  /\ upstreamError # <<>>
  /\ result = upstreamError[1]
  /\ Len(frame.allChildren) > 0
  /\ Len(calls) = 3
  /\ LastCall.fn = "getSeasonDetails"

\* The seasons getChildren lists for a show, from the catalog: canonical
\* ordering, number >= 0, upstream order.
ListedSeasons ==
  LET Listed(s) == s.type.type \in {DefaultTag, OfficialWord} /\ s.number >= 0
  IN SelectSeq(SeriesOf(upstream).seasons, Listed)

ExpectedSeasons ==
  [i \in 1..Len(ListedSeasons) |->
     mapSeason(ListedSeasons[i], frame.parsed.seriesId, SeriesName,
               constructGuid(TV_PROVIDER_IDENTIFIER, ShowWord,
                             TvdbShowPrefix \o NumberToString(frame.parsed.seriesId)),
               upstream.image, FALSE)]

\* The episodes getChildren lists for a season, from the catalog: those of
\* the extended record of the season found by number.
ExpectedEpisodes ==
  LET n == frame.parsed.seasonNumber[1]
      season == getSeasonByNumber(upstream, frame.parsed.seriesId, n,
                                  IF frame.parsed.seasonType = <<>>
                                    THEN DefaultTag ELSE frame.parsed.seasonType)
      episodes == SeasonExtendedOf(season.id).episodes
  IN [i \in 1..Len(episodes) |->
        mapEpisode(episodes[i], frame.parsed.seriesId, SeriesName,
                   constructGuid(TV_PROVIDER_IDENTIFIER, ShowWord,
                                 TvdbShowPrefix \o NumberToString(frame.parsed.seriesId)),
                   IF season.name # <<>> THEN season.name ELSE SeasonTitle(n),
                   constructGuid(TV_PROVIDER_IDENTIFIER, SeasonWord,
                                 TvdbSeasonPrefix
                                   \o NumberToString(frame.parsed.seriesId)
                                   \o <<Dash>> \o NumberToString(n)),
                   upstream.image, season.image)]

\* C10: before paging, getChildren on a show identifier has built the
\* upstream seasons of canonical ordering and number >= 0, each mapped by
\* mapSeason, in upstream order; on a season identifier, the episodes of that
\* season's extended record, in upstream order.
C10_ChildLists ==
  Succeeded("getChildren")
    => /\ KeyOfType(ShowWord)
            => frame.allChildren = ExpectedSeasons
                 /\ result.totalSize = Len(ListedSeasons)
       /\ KeyOfType(SeasonWord)
            => frame.allChildren = ExpectedEpisodes
                 /\ result.totalSize = Len(ExpectedEpisodes)

\* Upstream lists a DVD season and then the specials: getChildren on the show
\* built the specials (season 0) alone.
C10_Witness ==
  /\ Succeeded("getChildren")
  /\ KeyOfType(ShowWord)
  /\ upstream.seasons = <<23, 20>>
  /\ Len(frame.allChildren) = 1
  /\ frame.allChildren[1].index = 0
  /\ frame.allChildren[1].ratingKey = TvdbSeasonPrefix \o <<"1", "2", "-", "0">>

(***************************************************************************)
(* C11: the seasons getGrandchildren visits and the list it builds         *)
(***************************************************************************)
\* The upstream seasons of canonical ordering with number >= 1, in upstream
\* order, read from the catalog.
VisitedSeasons ==
  LET Visited(s) == s.type.type \in {DefaultTag, OfficialWord} /\ s.number >= 1
  IN SelectSeq(SeriesOf(upstream).seasons, Visited)

\* The episodes of the k-th visited season, in that season's own order.
EpisodesOfVisited(k) ==
  LET season == VisitedSeasons[k]
  IN allEpisodesOf(getSeasonDetails(upstream, season.id), season,
                   SeriesOf(upstream), frame.parsed.seriesId, season.number)

RECURSIVE ConcatVisited(_)
\* The episodes of the first k visited seasons, one season after the other.
ConcatVisited(k) ==
  IF k = 0 THEN <<>> ELSE ConcatVisited(k - 1) \o EpisodesOfVisited(k)

\* The upstream calls of a getGrandchildren that has reached its k-th season.
VisitCalls(k) ==
  [j \in 1..(k + 1) |->
     IF j = 1
       THEN [fn |-> "getSeriesDetails", args |-> <<frame.parsed.seriesId>>]
       ELSE [fn |-> "getSeasonDetails", args |-> <<VisitedSeasons[j - 1].id>>]]

\* C11: getGrandchildren on a show identifier fetches, after the series,
\* exactly the upstream seasons of canonical ordering with number >= 1, one
\* at a time in upstream order; while it waits for the k-th of them it has
\* gathered the episodes of the k-1 seasons before it and produced no
\* response; the response it returns is the page window over the
\* concatenation of all the visited seasons' episodes.
C11_SeasonBySeason ==
  /\ pc = "getGrandchildren:season"
       => /\ frame.i \in 1..Len(VisitedSeasons)
          /\ calls = VisitCalls(frame.i)
          /\ frame.allChildren = ConcatVisited(frame.i - 1)
          /\ result = NoResult
  /\ Succeeded("getGrandchildren")
       => /\ calls = VisitCalls(Len(VisitedSeasons))
          /\ frame.allChildren = ConcatVisited(Len(VisitedSeasons))
          /\ result = PagedContainer(ConcatVisited(Len(VisitedSeasons)),
                                     frame.paging)

\* Upstream lists season 2 before season 1: the 21 episodes of season 2 come
\* first, then the two of season 1, and the window starts at the second entry.
C11_Witness ==
  /\ Succeeded("getGrandchildren")
  /\ upstream.seasons = <<22, 21>>
  /\ Len(calls) = 3
  /\ calls[2].args = <<22>>
  /\ Len(frame.allChildren) = LongSeasonLen + 2
  /\ frame.allChildren[1].parentIndex = 2
  /\ frame.allChildren[LongSeasonLen + 1].parentIndex = 1
  /\ result.offset = 1
  /\ result.totalSize = LongSeasonLen + 2

(***************************************************************************)
(* C12: the identifier mapSeason gives a season                            *)
(***************************************************************************)
\* The identifier of the scheme for an upstream season: the ordering tag is
\* written unless the season's ordering is the canonical one.
TaggedSeasonKey(season, seriesId) ==
  LET tag == getSeasonTypeShortTag(season.type.type)
  IN encodeSeason(seriesId, season.number,
                  IF tag = DefaultTag THEN <<>> ELSE tag)

\* C12: the season entity getMetadata returns, mapped by mapSeason from the
\* upstream season found by number, has the ratingKey
\* tvdb-season-{seriesId}-{number}-{tag} when the season's ordering is not
\* canonical and tvdb-season-{seriesId}-{number} when it is, tag being the
\* short tag of the season's ordering-type word, and its guid is built on
\* that ratingKey.
C12_SeasonIdentifier ==
  (Succeeded("getMetadata") /\ frame.parsed.type = "season")
    => LET key == TaggedSeasonKey(frame.season, frame.parsed.seriesId)
       IN /\ result.Metadata[1].ratingKey = key
          /\ result.Metadata[1].guid
               = constructGuid(TV_PROVIDER_IDENTIFIER, SeasonWord, key)

(***************************************************************************)
(* C13: identifiers tell entities apart                                    *)
(***************************************************************************)
\* mapSeason applied to an upstream season of the series, as getSeason
\* applies it.
MappedSeason(season) ==
  mapSeason(season, upstream.id, SeriesOf(upstream).name,
            showGuidOf(upstream.id), upstream.image, FALSE)

\* Two upstream seasons that differ in number or in ordering tag.
DifferentSeasons(a, b) ==
  \/ a.number # b.number
  \/ getSeasonTypeShortTag(a.type.type) # getSeasonTypeShortTag(b.type.type)

\* The ratingKeys mapEpisode gives the episodes upstream lists for a season.
EpisodeKeysOf(season) ==
  {episodeRatingKey(upstream.id, e.seasonNumber, e.number) :
     e \in Range(SeasonExtendedOf(season.id).episodes)}

\* C13: the season entity getMetadata returns shares its ratingKey and its
\* guid with the mapping of no other upstream season of the series that
\* differs from it in number or in ordering, and its ratingKey is neither
\* the show's nor that of an episode.
C13_IdentifiersUnique ==
  (Succeeded("getMetadata") /\ frame.parsed.type = "season")
    => LET entity == result.Metadata[1]
           seasons == SeriesOf(upstream).seasons
       IN /\ \A i \in 1..Len(seasons) :
               DifferentSeasons(seasons[i], frame.season)
                 => /\ MappedSeason(seasons[i]).ratingKey # entity.ratingKey
                    /\ MappedSeason(seasons[i]).guid # entity.guid
          /\ entity.ratingKey # showRatingKey(upstream.id)
          /\ \A i \in 1..Len(seasons) :
               entity.ratingKey \notin EpisodeKeysOf(seasons[i])

(***************************************************************************)
(* C14: the ordering the lookups by number ask for                         *)
(***************************************************************************)
\* The ordering tag written in an identifier: its last segment when that is
\* a word, nothing when it is a number.
IdentifierTag(ratingKey) ==
  LET segments == SplitOn(ratingKey, Dash)
      last == segments[Len(segments)]
  IN IF IsDigits(last) THEN <<>> ELSE last

LookupsByNumber == {"getSeasonByNumber", "getEpisodeByNumber"}

\* C14: every getSeasonByNumber and getEpisodeByNumber call issued by
\* getMetadata, getChildren and getImages has as its ordering argument the
\* tag written in the requested identifier, and "default" when the
\* identifier has no tag.
C14_LookupOrdering ==
  \A k \in 1..Len(calls) :
    calls[k].fn \in LookupsByNumber
      => /\ frame.op \in {"getMetadata", "getChildren", "getImages"}
         /\ calls[k].args[Len(calls[k].args)]
              = IF IdentifierTag(frame.ratingKey) = <<>>
                  THEN DefaultTag
                  ELSE IdentifierTag(frame.ratingKey)

\* getImages on a DVD-order episode identifier has looked the episode up in
\* the "dvd" ordering.
C14_Witness ==
  /\ frame.op = "getImages"
  /\ IdentifierTag(frame.ratingKey) = DvdTag
  /\ Len(calls) = 2
  /\ calls[2].fn = "getEpisodeByNumber"
  /\ calls[2].args[4] = DvdTag
  /\ pc = "done"

(***************************************************************************)
(* The entity mapper on its own: one call of mapSeries, mapSeason,         *)
(* mapEpisode or mapAllImages on an upstream record                        *)
(***************************************************************************)
MaxCharacters == 3

MaxRatings == 2

MaxRuntime == 2

MaxArtworks == 3

\* The k-th character of an upstream list: its names tell its place.
CharacterAt(k, type, sort) ==
  TVDBCharacter(type, sort, <<"R">> \o NumberToString(k),
                <<"P">> \o NumberToString(k), <<>>)

\* Character lists of length n: directors (1) and actors (3), with sort
\* values that repeat and leave gaps.
RECURSIVE CharacterLists(_)
CharacterLists(n) ==
  IF n = 0 THEN {<<>>}
  ELSE {Append(l, CharacterAt(n, type, sort)) :
          l \in CharacterLists(n - 1), type \in {1, ACTOR}, sort \in {0, 2, 50}}

SmallCasts == UNION {CharacterLists(n) : n \in 0..MaxCharacters}

\* Character lists of length n over the four type codes the mapper reads
\* and one it does not (5).
RECURSIVE CrewLists(_)
CrewLists(n) ==
  IF n = 0 THEN {<<>>}
  ELSE {Append(l, CharacterAt(n, type, 0)) :
          l \in CrewLists(n - 1),
          type \in {DIRECTOR, WRITER, ACTOR, PRODUCER, 5}}

Crews == UNION {CrewLists(n) : n \in 0..MaxCharacters}

\* A cast with more actors than mapCast keeps: RoleLimit + 2 actors and a
\* director, sort values out of order and repeated.
LongCast ==
  [k \in 1..(RoleLimit + 3) |->
     CharacterAt(k, IF k = 2 THEN 1 ELSE ACTOR, (k * 7) % 13)]

CountryCodes ==
  {<<"U", "S">>, <<"u", "s", "a">>, <<"G", "B", "R">>, <<"g", "b", "r">>}

RatingNames == {RatingName, <<"1", "5">>}

RECURSIVE RatingLists(_)
RatingLists(n) ==
  IF n = 0 THEN {<<>>}
  ELSE {Append(l, TVDBContentRating(country, name)) :
          l \in RatingLists(n - 1), country \in CountryCodes \cup {<<>>},
          name \in RatingNames}

ContentRatings == UNION {RatingLists(n) : n \in 0..MaxRatings}

\* options.country: not given, or a code in either case.
RequestedCountries ==
  {<<>>, <<"U", "S">>, <<"u", "s">>, <<"U", "S", "A">>, <<"G", "B", "R">>,
   <<"g", "b", "r">>, <<"D", "E", "U">>}

\* `number | null` minutes.
Runtimes == {<<>>} \cup {<<n>> : n \in 0..MaxRuntime} \cup {<<11>>}

\* Artwork lists of length n; the image of an artwork tells its place.
RECURSIVE ArtworkLists(_)
ArtworkLists(n) ==
  IF n = 0 THEN {<<>>}
  ELSE {Append(l, TVDBArtwork(type, <<"a">> \o NumberToString(n))) :
          l \in ArtworkLists(n - 1),
          type \in {BANNER, POSTER, BACKGROUND, ICON, CLEARLOGO}}

Artworks == UNION {ArtworkLists(n) : n \in 0..MaxArtworks}

\* The series the mapper calls start from: two seasons of different
\* orderings upstream.
SampleSeries == SeriesOf([id |-> 12, image |-> SeriesImage, seasons |-> <<23, 21>>])

SampleEpisode == TVDBEpisode(101, 1, 1, EpisodeName, EpisodeImage)

\* One call of the mapper: the method, the upstream record and the options.
MapperCall(op, record, includeChildren, country) ==
  [op |-> op, record |-> record, includeChildren |-> includeChildren,
   country |-> country]

SeriesCalls ==
  {MapperCall("mapSeries", [SampleSeries EXCEPT !.characters = characters],
              includeChildren, <<>>) :
     characters \in SmallCasts, includeChildren \in BOOLEAN}
  \cup {MapperCall("mapSeries", [SampleSeries EXCEPT !.contentRatings = ratings],
                   FALSE, country) :
          ratings \in ContentRatings, country \in RequestedCountries}
  \cup {MapperCall("mapSeries", [SampleSeries EXCEPT !.averageRuntime = minutes],
                   FALSE, <<>>) :
          minutes \in Runtimes}
  \cup {MapperCall("mapSeries", [SampleSeries EXCEPT !.characters = characters],
                   FALSE, <<>>) :
          characters \in Crews}
  \cup {MapperCall("mapSeries", [SampleSeries EXCEPT !.artworks = artworks],
                   FALSE, <<>>) :
          artworks \in Artworks}
  \cup {MapperCall("mapSeries", SeriesOf(c), includeChildren, <<>>) :
          c \in Catalogs, includeChildren \in BOOLEAN}

\* The seasons of the pool, and season 21 with each artwork list, with and
\* without an image of its own.
SeasonCalls ==
  {MapperCall("mapSeason", SeasonExtendedOf(id), includeChildren, <<>>) :
     id \in SeasonIds, includeChildren \in BOOLEAN}
  \cup {MapperCall("mapSeason",
                   [SeasonExtendedOf(21) EXCEPT !.artwork = artworks,
                                                !.image = image],
                   FALSE, <<>>) :
          artworks \in Artworks, image \in {<<>>, SeasonImage}}

EpisodeCalls ==
  {MapperCall("mapEpisode", [SampleEpisode EXCEPT !.characters = characters,
                                                  !.runtime = minutes],
              FALSE, <<>>) :
     characters \in {l \in SmallCasts : Len(l) <= 2}, minutes \in Runtimes}
  \cup {MapperCall("mapEpisode", [SampleEpisode EXCEPT !.characters = characters],
                   FALSE, <<>>) :
          characters \in {l \in Crews : Len(l) <= 2}}
  \cup {MapperCall("mapEpisode", [SampleEpisode EXCEPT !.characters = LongCast],
                   FALSE, <<>>)}

ImagesCalls ==
  {MapperCall("mapAllImages", artworks, FALSE, <<>>) : artworks \in Artworks}

MapperCalls == SeriesCalls \cup SeasonCalls \cup EpisodeCalls \cup ImagesCalls

\* mapper.mapSeries(series, { includeChildren, country }).  mapSeries reads
\* the series' arrays with find, filter, map and forEach, which write
\* nothing; mapCast alone calls sort.
MapSeries ==
  /\ pc = "call"
  /\ frame.op = "mapSeries"
  /\ result' = mapSeries(upstream, frame.includeChildren, frame.country)
  /\ upstream' = [upstream EXCEPT !.characters = CharactersAfter(@)]
  /\ pc' = "done"
  /\ UNCHANGED <<frame, calls, upstreamError, others>>

\* mapper.mapSeason(season, seriesId, showTitle, showGuid, showThumb, options)
MapSeason ==
  /\ pc = "call"
  /\ frame.op = "mapSeason"
  /\ result' = mapSeason(upstream, 12, SeriesName, showGuidOf(12), SeriesImage,
                         frame.includeChildren)
  /\ upstream' = [upstream EXCEPT
                    !.episodes = [i \in 1..Len(@) |->
                       [@[i] EXCEPT !.characters = CharactersAfter(@)]]]
  /\ pc' = "done"
  /\ UNCHANGED <<frame, calls, upstreamError, others>>

\* mapper.mapEpisode(episode, seriesId, showTitle, showGuid, seasonTitle,
\* seasonGuid, showThumb, seasonThumb)
MapEpisode ==
  /\ pc = "call"
  /\ frame.op = "mapEpisode"
  /\ result' = mapEpisode(upstream, 12, SeriesName, showGuidOf(12),
                          SeasonTitle(upstream.seasonNumber),
                          seasonGuidOf(12, upstream.seasonNumber),
                          SeriesImage, <<>>)
  /\ upstream' = [upstream EXCEPT !.characters = CharactersAfter(@)]
  /\ pc' = "done"
  /\ UNCHANGED <<frame, calls, upstreamError, others>>

\* mapper.mapAllImages(artworks, title): forEach over the upstream list,
\* push on a new one.
MapAllImages ==
  /\ pc = "call"
  /\ frame.op = "mapAllImages"
  /\ result' = mapAllImages(upstream, SeriesName)
  /\ upstream' = upstream
  /\ pc' = "done"
  /\ UNCHANGED <<frame, calls, upstreamError, others>>

\* The upstream record is the call's argument; frame keeps the call's
\* options and the record as it was received.
MapperInit ==
  /\ \E call \in MapperCalls :
       /\ upstream = call.record
       /\ frame = [op |-> call.op, received |-> call.record,
                   includeChildren |-> call.includeChildren,
                   country |-> call.country]
  /\ pc = "call"
  /\ calls = <<>>
  /\ result = NoResult
  /\ upstreamError = <<>>
  /\ others = <<>>

MapperNext ==
  \/ MapSeries
  \/ MapSeason
  \/ MapEpisode
  \/ MapAllImages

SpecMapper == MapperInit /\ [][MapperNext]_vars

(***************************************************************************)
(* C15: the Role list                                                      *)
(***************************************************************************)
\* The upstream character each entry of a Role list was made of (the
\* person names of a list are all different).
SourcesOf(characters, role) ==
  <<>> \o [k \in 1..Len(role) |->
             CHOOSE i \in 1..Len(characters) :
               characters[i].personName = role[k].tag]

\* Character i is listed before character j: smaller sort value, or the
\* same value and earlier in the upstream list.
ListedBefore(characters, i, j) ==
  \/ characters[i].sort < characters[j].sort
  \/ characters[i].sort = characters[j].sort /\ i < j

ActorsOf(characters) ==
  {i \in 1..Len(characters) : characters[i].type = 3}

\* role is the list the claim describes for the upstream list characters,
\* source[k] being the character entry k was made of.
CastAsClaimed(characters, role, source, actors) ==
  /\ Len(role) = IF Cardinality(actors) <= 1000
                   THEN Cardinality(actors) ELSE 1000
  /\ \A k \in 1..Len(role) :
       /\ source[k] \in actors
       /\ role[k].tag = characters[source[k]].personName
       /\ role[k].role = characters[source[k]].name
       /\ role[k].order = k
  /\ \A k \in 1..(Len(role) - 1) :
       ListedBefore(characters, source[k], source[k + 1])
  /\ \A i \in actors \ Range(source) :
       ListedBefore(characters, source[Len(role)], i)

\* C15: the Role list mapSeries and mapEpisode give is made of the upstream
\* characters of type 3 and of no other, in ascending order of their sort
\* value with equal values in upstream order, cut after the first 1000, and
\* its k-th entry has order k (there is no Role list when upstream lists no
\* character).
C15_RoleList ==
  (pc = "done" /\ frame.op \in {"mapSeries", "mapEpisode"})
    => LET characters == frame.received.characters
       IN IF Len(characters) = 0
            THEN result.Role = Null
            ELSE CastAsClaimed(characters, result.Role,
                               SourcesOf(characters, result.Role),
                               ActorsOf(characters))

\* mapEpisode on an episode with 1002 actors and a director: 1000 roles,
\* numbered to 1000, the first made of the first character with sort value 0.
C15_Witness ==
  /\ pc = "done"
  /\ frame.op = "mapEpisode"
  /\ Len(frame.received.characters) = RoleLimit + 3
  /\ Len(result.Role) = RoleLimit
  /\ result.Role[1].tag = <<"P", "1", "3">>
  /\ result.Role[1].order = 1
  /\ result.Role[RoleLimit].order = RoleLimit

(***************************************************************************)
(* C16: the content rating of a series                                     *)
(***************************************************************************)
\* The country asked for: options.country, US when it is not given.
RequestedCountry == IF frame.country = <<>> THEN <<"U", "S">> ELSE frame.country

IsUnitedStates(code) ==
  toUpperCase(code) \in {<<"U", "S">>, <<"U", "S", "A">>}

\* Two country codes name the same country: equal without regard to case,
\* or both one of US and USA.
SameCountry(a, b) ==
  \/ toUpperCase(a) = toUpperCase(b)
  \/ IsUnitedStates(a) /\ IsUnitedStates(b)

\* The upstream content-rating entries that match the requested country.
MatchingRatings ==
  LET entries == frame.received.contentRatings
  IN {i \in 1..Len(entries) :
        entries[i].country # <<>> /\ SameCountry(entries[i].country, RequestedCountry)}

\* C16: the contentRating mapSeries gives for the requested country is
\* absent when no upstream content-rating entry is of that country (US and
\* USA being one country, case ignored); otherwise it is made of a matching
\* entry: its bare name when the requested country is US or USA, and its
\* country code in lower case, "/" and its name for any other country.
C16_ContentRating ==
  (pc = "done" /\ frame.op = "mapSeries")
    => LET entries == frame.received.contentRatings
       IN IF MatchingRatings = {}
            THEN result.contentRating = <<>>
            ELSE \E i \in MatchingRatings :
                   result.contentRating
                     = IF IsUnitedStates(RequestedCountry)
                         THEN entries[i].name
                         ELSE toLowerCase(entries[i].country)
                                \o <<"/">> \o entries[i].name

\* Country gbr is asked for and upstream rates the series TV-PG for usa and
\* 15 for GBR: the content rating is gbr/15.
C16_Witness ==
  /\ pc = "done"
  /\ frame.op = "mapSeries"
  /\ frame.country = <<"g", "b", "r">>
  /\ frame.received.contentRatings
       = <<TVDBContentRating(<<"u", "s", "a">>, RatingName),
           TVDBContentRating(<<"G", "B", "R">>, <<"1", "5">>)>>
  /\ result.contentRating = <<"g", "b", "r", "/", "1", "5">>

(***************************************************************************)
(* C17: duration                                                           *)
(***************************************************************************)
\* The minutes the mapped record's duration comes from: the series'
\* averageRuntime, the episode's runtime (<<>> when absent).
UpstreamMinutes ==
  IF frame.op = "mapSeries"
    THEN frame.received.averageRuntime
    ELSE frame.received.runtime

\* C17: the duration mapSeries gives is averageRuntime x 60000 whenever
\* averageRuntime is present, and is absent exactly when averageRuntime is
\* absent; mapEpisode does the same with the episode's runtime.
C17_Duration ==
  (pc = "done" /\ frame.op \in {"mapSeries", "mapEpisode"})
    => /\ (result.duration = <<>>) <=> (UpstreamMinutes = <<>>)
       /\ UpstreamMinutes # <<>>
            => result.duration = <<UpstreamMinutes[1] * 60000>>

(***************************************************************************)
(* C18: the order of the upstream calls of getMetadata                     *)
(***************************************************************************)
\* The names of the upstream calls issued so far, in order.
CallNames == [k \in 1..Len(calls) |-> calls[k].fn]

IsPrefix(s, t) == Len(s) <= Len(t) /\ s = SubSeq(t, 1, Len(s))

\* What upstream answers the k-th call with.
ReplyTo(k) ==
  LET a == calls[k].args
  IN CASE calls[k].fn = "getSeasonByNumber" ->
            getSeasonByNumber(upstream, a[1], a[2], a[3])
       [] calls[k].fn = "getEpisodeByNumber" ->
            getEpisodeByNumber(upstream, a[1], a[2], a[3], a[4])

\* The operation ended without an upstream call failing.
Settled == pc = "done" /\ upstreamError = <<>>

\* C18: getMetadata without includeChildren issues, for a show,
\* getSeriesDetails and nothing else; for a season, getSeriesDetails then
\* getSeasonByNumber and nothing else; for an episode, getSeriesDetails,
\* then getEpisodeByNumber, then getEpisodeDetails with the id of the
\* episode found.  getEpisodeDetails is issued if and only if
\* getEpisodeByNumber answered with a record.
C18_CallOrder ==
  (/\ frame.op = "getMetadata"
   /\ frame.parsed # Null
   /\ ~frame.options.includeChildren)
    => /\ frame.parsed.type = "show"
            => CallNames = <<"getSeriesDetails">>
       /\ frame.parsed.type = "season"
            => /\ IsPrefix(CallNames, <<"getSeriesDetails", "getSeasonByNumber">>)
               /\ Settled => Len(calls) = 2
       /\ frame.parsed.type = "episode"
            => /\ IsPrefix(CallNames, <<"getSeriesDetails", "getEpisodeByNumber",
                                        "getEpisodeDetails">>)
               /\ Len(calls) = 3
                    => /\ ReplyTo(2) # Null
                       /\ calls[3].args = <<ReplyTo(2).id>>
               /\ (Settled /\ Len(calls) = 2) => ReplyTo(2) = Null
               /\ Settled => Len(calls) >= 2

\* getMetadata on episode 2 of season 1 has looked the episode up and then
\* fetched the extended record of the episode found, id 102.
C18_Witness ==
  /\ Succeeded("getMetadata")
  /\ ~frame.options.includeChildren
  /\ frame.parsed.type = "episode"
  /\ CallNames = <<"getSeriesDetails", "getEpisodeByNumber", "getEpisodeDetails">>
  /\ calls[2].args = <<12, 1, 2, DefaultTag>>
  /\ calls[3].args = <<102>>

(***************************************************************************)
(* C20: the mapper leaves the upstream record as it received it            *)
(***************************************************************************)
\* C20: after mapSeries, mapSeason, mapEpisode or mapAllImages returned,
\* the upstream record it was given is what it was when the call was made,
\* its characters, artworks, seasons and episodes in the same order with
\* the same contents.
C20_UpstreamUnchanged ==
  pc = "done" => upstream = frame.received

\* mapSeries on a series whose two actors are listed with sort values 50
\* and 0: the Role list has them in ascending order, the upstream list still
\* has them as received.
C20_Witness ==
  /\ pc = "done"
  /\ frame.op = "mapSeries"
  /\ Len(frame.received.characters) = 2
  /\ Len(result.Role) = 2
  /\ result.Role[1].tag = <<"P", "2">>
  /\ result.Role[2].tag = <<"P", "1">>
  /\ upstream.characters[1].sort = 50
  /\ upstream.characters[2].sort = 0

(***************************************************************************)
(* Two lookups in flight.  An operation runs from one await to the next;   *)
(* between two such steps the other operation may run.                     *)
(***************************************************************************)
\* What an operation keeps while another runs: its position, arguments and
\* locals, the calls it issued and its outcome.  overlapped records that at
\* some switch both operations were waiting for an upstream answer.
Suspended(overlapped) ==
  [pc |-> pc, frame |-> frame, calls |-> calls, result |-> result,
   upstreamError |-> upstreamError, overlapped |-> overlapped]

\* A request that has not been taken up.
NotStarted ==
  [pc |-> "idle", frame |-> IdleFrame, calls |-> <<>>, result |-> NoResult,
   upstreamError |-> <<>>, overlapped |-> FALSE]

\* The running operation waits (at an await, or settled, or not taken up)
\* and the other one goes on.
Switch ==
  /\ others # <<>>
  /\ pc' = others[1].pc
  /\ frame' = others[1].frame
  /\ calls' = others[1].calls
  /\ result' = others[1].result
  /\ upstreamError' = others[1].upstreamError
  /\ others' = <<Suspended(\/ others[1].overlapped
                           \/ pc \in Awaiting /\ others[1].pc \in Awaiting)>>
  /\ UNCHANGED upstream

ConcurrentKeys ==
  {encodeShow(12), encodeSeason(12, 1, <<>>), encodeEpisode(12, 1, 1, <<>>)}

ConcurrentPaging ==
  {NoPaging, [containerStart |-> <<2>>, containerSize |-> <<1>>]}

ConcurrentCatalogs ==
  {c \in Catalogs : c.seasons \in {<<21, 22>>, <<23, 21>>}}

\* A lookup is taken up: one of the four operations runs to its first await.
StartLookup ==
  /\ pc = "idle"
  /\ \E ratingKey \in ConcurrentKeys :
       \/ \E includeChildren \in BOOLEAN :
            getMetadata_call(ratingKey, includeChildren)
       \/ getImages_call(ratingKey)
       \/ \E paging \in ConcurrentPaging : getChildren_call(ratingKey, paging)
       \/ \E paging \in ConcurrentPaging :
            getGrandchildren_call(ratingKey, paging)
  /\ UNCHANGED <<upstream, upstreamError, others>>

ConcurrentInit ==
  /\ upstream \in ConcurrentCatalogs
  /\ pc = "idle"
  /\ frame = IdleFrame
  /\ calls = <<>>
  /\ result = NoResult
  /\ upstreamError = <<>>
  /\ others = <<NotStarted>>

ConcurrentNext ==
  \/ StartLookup
  \/ getShow_series
  \/ getSeason_series
  \/ getSeason_season
  \/ getSeason_details
  \/ getEpisode_series
  \/ getEpisode_episode
  \/ getEpisode_details
  \/ getImages_show_series
  \/ getImages_show_artworks
  \/ getImages_season_series
  \/ getImages_season_season
  \/ getImages_season_artworks
  \/ getImages_episode_series
  \/ getImages_episode_episode
  \/ getChildren_show_series
  \/ getChildren_season_series
  \/ getChildren_season_season
  \/ getChildren_season_details
  \/ getGrandchildren_series
  \/ getGrandchildren_season
  \/ \E e \in UpstreamErrors : Reject(e)
  \/ Switch

SpecConcurrent == ConcurrentInit /\ [][ConcurrentNext]_vars

(***************************************************************************)
(* C19: a lookup answers as it would alone                                 *)
(***************************************************************************)
\* The upstream series (the lookups of this specification are on series 12,
\* which upstream has).
AloneSeries == SeriesOf(upstream)

\* What getMetadata answers when nothing else runs, from the upstream data
\* and its arguments.
AloneMetadata(parsed, options) ==
  LET id == parsed.seriesId
  IN CASE parsed.type = "show" ->
            SingleContainer(mapSeries(AloneSeries, options.includeChildren,
                                      options.country))
       [] parsed.type = "season" ->
            LET n == parsed.seasonNumber[1]
                season == getSeasonByNumber(upstream, id, n, OrderingArg(parsed))
            IN IF season = Null
                 THEN Error(SeasonNotFoundMessage(n, id))
                 ELSE SingleContainer(
                        mapSeason(IF options.includeChildren
                                    THEN getSeasonDetails(upstream, season.id)
                                    ELSE season,
                                  id, AloneSeries.name, showGuidOf(id),
                                  AloneSeries.image, options.includeChildren))
       [] parsed.type = "episode" ->
            LET n == parsed.seasonNumber[1]
                e == parsed.episodeNumber[1]
                episode == getEpisodeByNumber(upstream, id, n, e,
                                              OrderingArg(parsed))
            IN IF episode = Null
                 THEN Error(EpisodeNotFoundMessage(n, e, id))
                 ELSE SingleContainer(
                        mapEpisode(getEpisodeDetails(upstream, episode.id), id,
                                   AloneSeries.name, showGuidOf(id),
                                   SeasonTitle(n), seasonGuidOf(id, n),
                                   AloneSeries.image, <<>>))

\* What getImages answers when nothing else runs.
AloneImages(parsed) ==
  LET id == parsed.seriesId
  IN CASE parsed.type = "show" ->
            ImagesContainer(mapAllImages(getSeriesArtworks(upstream, id),
                                         AloneSeries.name))
       [] parsed.type = "season" ->
            LET n == parsed.seasonNumber[1]
                season == getSeasonByNumber(upstream, id, n, OrderingArg(parsed))
            IN IF season = Null
                 THEN ImagesContainer(<<>>)
                 ELSE ImagesContainer(
                        mapAllImages(getSeasonArtworks(upstream, season.id),
                                     AloneSeries.name \o <<" ", "-", " ">>
                                       \o SeasonTitlePrefix \o NumberToString(n)))
       [] parsed.type = "episode" ->
            LET n == parsed.seasonNumber[1]
                e == parsed.episodeNumber[1]
                episode == getEpisodeByNumber(upstream, id, n, e,
                                              OrderingArg(parsed))
            IN ImagesContainer(
                 IF episode # Null /\ episode.image # <<>>
                   THEN <<[type |-> "snapshot", url |-> episode.image,
                           alt |-> AloneSeries.name \o <<" ", "-", " ", "S">>
                                     \o NumberToString(n) \o <<"E">>
                                     \o NumberToString(e)]>>
                   ELSE <<>>)

\* What getChildren answers when nothing else runs.
AloneChildren(parsed, paging) ==
  LET id == parsed.seriesId
  IN CASE parsed.type = "show" ->
            PagedContainer(allSeasonsOf(AloneSeries, id), paging)
       [] parsed.type = "season" ->
            LET n == parsed.seasonNumber[1]
                season == getSeasonByNumber(upstream, id, n, OrderingArg(parsed))
            IN IF season = Null
                 THEN Error(ChildrenSeasonNotFoundMessage(n))
                 ELSE PagedContainer(
                        allEpisodesOf(getSeasonDetails(upstream, season.id),
                                      season, AloneSeries, id, n),
                        paging)
       [] OTHER -> Error(NoChildrenMessage(parsed.type))

RECURSIVE AloneEpisodes(_, _)
\* The episodes of the first k of the seasons, one season after the other.
AloneEpisodes(seasons, k) ==
  IF k = 0 THEN <<>>
  ELSE AloneEpisodes(seasons, k - 1)
         \o allEpisodesOf(getSeasonDetails(upstream, seasons[k].id), seasons[k],
                          AloneSeries, AloneSeries.id, seasons[k].number)

\* What getGrandchildren answers when nothing else runs.
AloneGrandchildren(parsed, paging) ==
  IF parsed.type # "show"
    THEN Error(NoGrandchildrenMessage(parsed.type))
    ELSE PagedContainer(AloneEpisodes(regularSeasonsOf(AloneSeries),
                                      Len(regularSeasonsOf(AloneSeries))),
                        paging)

\* The response of a lookup that runs alone against upstream.
AloneResponse(op, ratingKey, options, paging) ==
  LET parsed == parseRatingKey(ratingKey)
  IN IF parsed = Null
       THEN Error(InvalidFormatMessage(ratingKey))
       ELSE CASE op = "getMetadata" -> AloneMetadata(parsed, options)
              [] op = "getImages" -> AloneImages(parsed)
              [] op = "getChildren" -> AloneChildren(parsed, paging)
              [] op = "getGrandchildren" -> AloneGrandchildren(parsed, paging)

\* C19: with two lookups in flight, each suspended and resumed at its
\* upstream calls in any order, a lookup that settles without an upstream
\* failure returns the response it returns when it runs alone against the
\* same upstream data.
C19_AsWhenAlone ==
  (pc = "done" /\ upstreamError = <<>>)
    => result = AloneResponse(frame.op, frame.ratingKey, frame.options,
                              frame.paging)

\* Two getGrandchildren on the same show were both waiting for upstream at
\* the same time; both have returned, one the second episode of 23 and the
\* other the first 20.
C19_Witness ==
  /\ Succeeded("getGrandchildren")
  /\ upstream.seasons = <<21, 22>>
  /\ others[1].overlapped
  /\ others[1].pc = "done"
  /\ others[1].frame.op = "getGrandchildren"
  /\ others[1].result.kind = "MediaContainer"
  /\ result.offset = 1
  /\ result.size = 1
  /\ result.totalSize = LongSeasonLen + 2
  /\ others[1].result.offset = 0
  /\ others[1].result.size = 20

(***************************************************************************)
(* C21: the children container of a show                                   *)
(***************************************************************************)
\* The seasons of an upstream list whose ordering type is "default" or
\* "official", in the order of the list.
RECURSIVE CanonicalOf(_)
CanonicalOf(seasons) ==
  IF seasons = <<>> THEN <<>>
  ELSE IF Head(seasons).type.type \in {DefaultTag, OfficialWord}
         THEN <<Head(seasons)>> \o CanonicalOf(Tail(seasons))
         ELSE CanonicalOf(Tail(seasons))

\* C21: mapSeries called with includeChildren on a series with a non-empty
\* season list attaches one children container; its list is the mapSeason
\* result of the seasons of canonical ordering, in upstream order, and its
\* size is the length of that list.  Called without includeChildren it
\* attaches none.
C21_ShowChildren ==
  (pc = "done" /\ frame.op = "mapSeries") =>
    LET series == frame.received
        canonical == CanonicalOf(series.seasons)
    IN /\ (frame.includeChildren /\ Len(series.seasons) > 0) =>
            /\ Len(result.Children) = 1
            /\ result.Children[1].size = Len(canonical)
            /\ Len(result.Children[1].Metadata) = Len(canonical)
            /\ \A i \in 1..Len(canonical) :
                 result.Children[1].Metadata[i]
                   = mapSeason(canonical[i], series.id, series.name,
                               result.guid, series.image, FALSE)
       /\ ~frame.includeChildren => result.Children = <<>>

\* mapSeries has attached the one canonical season of a series whose first
\* season is of the DVD ordering.
C21_Witness ==
  /\ pc = "done"
  /\ frame.op = "mapSeries"
  /\ frame.includeChildren
  /\ Len(frame.received.seasons) = 2
  /\ frame.received.seasons[1].type.type = DvdTag
  /\ frame.received.seasons[2].type.type = OfficialWord
  /\ result.Children # <<>>
  /\ result.Children[1].size = 1
  /\ result.Children[1].Metadata[1].index = frame.received.seasons[2].number

(***************************************************************************)
(* C22: the Image list of a show                                           *)
(***************************************************************************)
\* The images of a list that carry the given type; none for an absent list.
ImagesOfType(images, type) ==
  IF images = <<>> THEN {}
  ELSE { i \in 1..Len(images[1]) : images[1][i].type = type }

\* The places of the artworks with the given type code.
PlacesOfCode(artworks, code) ==
  { k \in 1..Len(artworks) : artworks[k].type = code }

\* The smallest member of a non-empty set of places.
FirstPlace(places) == CHOOSE k \in places : \A other \in places : k <= other

\* Every image of the given type is made of the first artwork with the
\* given code, which exists.
FromFirst(images, type, artworks, code) ==
  \A i \in ImagesOfType(images, type) :
    /\ PlacesOfCode(artworks, code) # {}
    /\ images[1][i].url = artworks[FirstPlace(PlacesOfCode(artworks, code))].image

\* C22: the Image list mapSeries builds has at most one coverPoster, one
\* background and one clearLogo; the coverPoster is made of the first poster
\* of the artwork list, the clearLogo of its first clear logo, and the
\* background of its first background, or, when the list has no background,
\* of its first banner.
C22_ShowImages ==
  (pc = "done" /\ frame.op = "mapSeries") =>
    LET artworks == frame.received.artworks
        images == result.Image
    IN /\ \A type \in {"coverPoster", "background", "clearLogo"} :
            Cardinality(ImagesOfType(images, type)) <= 1
       /\ FromFirst(images, "coverPoster", artworks, POSTER)
       /\ FromFirst(images, "clearLogo", artworks, CLEARLOGO)
       /\ IF PlacesOfCode(artworks, BACKGROUND) # {}
            THEN FromFirst(images, "background", artworks, BACKGROUND)
            ELSE FromFirst(images, "background", artworks, BANNER)
       /\ images # <<>> =>
            \A i \in 1..Len(images[1]) :
              images[1][i].type \in {"coverPoster", "background", "clearLogo"}

\* mapSeries on a banner, a background and another banner: the background
\* alone is listed.
C22_Witness ==
  /\ pc = "done"
  /\ frame.op = "mapSeries"
  /\ Len(frame.received.artworks) = 3
  /\ frame.received.artworks[1].type = BANNER
  /\ frame.received.artworks[2].type = BACKGROUND
  /\ frame.received.artworks[3].type = BANNER
  /\ result.Image # <<>>
  /\ Len(result.Image[1]) = 1
  /\ result.Image[1][1].type = "background"
  /\ result.Image[1][1].url = frame.received.artworks[2].image

(***************************************************************************)
(* C23: mapAllImages                                                       *)
(***************************************************************************)
\* The places of the artworks whose type code is poster, background, clear
\* logo or banner.
RecognizedPlaces(artworks) ==
  { k \in 1..Len(artworks) :
      artworks[k].type \in {POSTER, BACKGROUND, CLEARLOGO, BANNER} }

\* The i-th of a set of places, in increasing order.
NthPlace(places, i) ==
  CHOOSE k \in places : Cardinality({ j \in places : j < k }) = i - 1

\* The image type claimed for a recognized type code.
ClaimedImageType(code) ==
  CASE code = POSTER -> "coverPoster"
    [] code = CLEARLOGO -> "clearLogo"
    [] code \in {BACKGROUND, BANNER} -> "background"

\* C23: mapAllImages returns one image for each artwork whose type code is
\* poster, background, clear logo or banner, in input order, a banner as a
\* background, and nothing for any other type code; for an empty (or
\* missing) artwork list it returns the empty list.
C23_AllImages ==
  (pc = "done" /\ frame.op = "mapAllImages") =>
    LET artworks == frame.received
        places == RecognizedPlaces(artworks)
    IN /\ Len(result) = Cardinality(places)
       /\ \A i \in 1..Len(result) :
            /\ result[i].type = ClaimedImageType(artworks[NthPlace(places, i)].type)
            /\ result[i].url = artworks[NthPlace(places, i)].image
       /\ Len(artworks) = 0 => result = <<>>

\* mapAllImages on two banners and an icon between them: two backgrounds,
\* in input order.
C23_Witness ==
  /\ pc = "done"
  /\ frame.op = "mapAllImages"
  /\ Len(frame.received) = 3
  /\ frame.received[1].type = BANNER
  /\ frame.received[2].type = ICON
  /\ frame.received[3].type = BANNER
  /\ Len(result) = 2
  /\ result[1].type = "background"
  /\ result[1].url = frame.received[1].image
  /\ result[2].url = frame.received[3].image

(***************************************************************************)
(* C24: crew and cast partition the characters                             *)
(***************************************************************************)
\* The person names of an optional crew list.
CrewTags(list) ==
  IF list = <<>> THEN {} ELSE { list[1][k].tag : k \in 1..Len(list[1]) }

\* The person names of the Role list made of characters (none when there
\* is no character, and no list).
RoleTags(characters, role) ==
  IF Len(characters) = 0 THEN {} ELSE { role[k].tag : k \in 1..Len(role) }

\* The number of entries of an optional crew list.
CrewSize(list) == IF list = <<>> THEN 0 ELSE Len(list[1])

\* The characters of an upstream list with the given type code.
WithCode(characters, code) ==
  { i \in 1..Len(characters) : characters[i].type = code }

\* C24: of the characters given to mapSeries or mapEpisode (each with a
\* person name of its own), one is listed in Director only if its type code
\* is 1, in Writer only if it is 2, in Producer only if it is 4 and in Role
\* only if it is 3; every character of code 1, 2 or 4 is listed once in its
\* list, and every character of code 3 is in Role when the list has at most
\* 1000 characters.  So one of another code is in no list, and none is in
\* two.
C24_CrewPartition ==
  (pc = "done" /\ frame.op \in {"mapSeries", "mapEpisode"}) =>
    LET characters == frame.received.characters
        roles == RoleTags(characters, result.Role)
    IN /\ \A i \in 1..Len(characters) :
            LET tag == characters[i].personName
                code == characters[i].type
            IN /\ tag \in CrewTags(result.Director) <=> code = 1
               /\ tag \in CrewTags(result.Writer) <=> code = 2
               /\ tag \in CrewTags(result.Producer) <=> code = 4
               /\ tag \in roles => code = 3
               /\ (code = 3 /\ Len(characters) <= 1000) => tag \in roles
       /\ CrewSize(result.Director) = Cardinality(WithCode(characters, 1))
       /\ CrewSize(result.Writer) = Cardinality(WithCode(characters, 2))
       /\ CrewSize(result.Producer) = Cardinality(WithCode(characters, 4))

\* mapSeries on a producer, a writer and a character of code 5: one
\* Producer, one Writer, no Director and an empty Role list.
C24_Witness ==
  /\ pc = "done"
  /\ frame.op = "mapSeries"
  /\ Len(frame.received.characters) = 3
  /\ frame.received.characters[1].type = 4
  /\ frame.received.characters[2].type = 2
  /\ frame.received.characters[3].type = 5
  /\ CrewTags(result.Producer) = {frame.received.characters[1].personName}
  /\ CrewTags(result.Writer) = {frame.received.characters[2].personName}
  /\ result.Director = <<>>
  /\ Len(result.Role) = 0

(***************************************************************************)
(* C25: requests that fail before any upstream call                        *)
(***************************************************************************)
\* The running operation was called with an identifier that does not
\* decode, or is getGrandchildren on a season or episode identifier, or
\* getChildren on an episode identifier.
FailsBeforeUpstream ==
  /\ frame.op \in {"getMetadata", "getImages", "getChildren", "getGrandchildren"}
  /\ \/ frame.ratingKey \in MalformedKeys
     \/ /\ frame.op = "getGrandchildren"
        /\ KeyOfType(SeasonWord) \/ KeyOfType(EpisodeWord)
     \/ frame.op = "getChildren" /\ KeyOfType(EpisodeWord)

\* C25: the step that starts such an operation ends it in a failure with no
\* upstream call issued, and no later step of it issues one.
C25_NoUpstreamCall ==
  [][/\ FailsBeforeUpstream'
          => /\ pc' = "done"
             /\ result'.kind = "error"
             /\ calls' = <<>>
     /\ FailsBeforeUpstream => calls' = <<>>]_vars

\* getGrandchildren was asked for the grandchildren of tvdb-season-12-1 and
\* failed with no upstream call.
C25_Witness ==
  /\ pc = "done"
  /\ frame.op = "getGrandchildren"
  /\ frame.ratingKey = encodeSeason(12, 1, <<>>)
  /\ FailsBeforeUpstream
  /\ result = Error(NoGrandchildrenMessage("season"))
  /\ calls = <<>>

(***************************************************************************)
(* C26: the bounds of the returned page                                    *)
(***************************************************************************)
\* C26: whatever integer containerStart is (0 and negative values included)
\* and for every containerSize >= 0, the container getChildren and
\* getGrandchildren return has offset >= 0, size <= containerSize and
\* offset + size <= totalSize.
C26_PageBounds ==
  (/\ Succeeded("getChildren") \/ Succeeded("getGrandchildren")
   /\ RequestedSize >= 0)
    => /\ result.offset >= 0
       /\ result.size <= RequestedSize
       /\ result.offset + result.size <= result.totalSize

(***************************************************************************)
(* C27: the parent and grandparent URIs of an episode                      *)
(***************************************************************************)
\* The episode entities of a response: those listed in it, and those nested
\* in a season listed in it.
EpisodesOfResponse ==
  { m \in Range(result.Metadata) : m.type = "episode" }
    \cup UNION { Range(m.Children[1].Metadata) :
                   m \in { s \in Range(result.Metadata) :
                             s.type = "season" /\ s.Children # <<>> } }

\* The composite URI of an identifier: scheme://type/identifier.
CompositeUri(typeWord, ratingKey) ==
  TV_PROVIDER_IDENTIFIER \o <<":", "/", "/">> \o typeWord \o <<"/">> \o ratingKey

\* C27: every episode of a response of getMetadata, getChildren or
\* getGrandchildren, listed or nested in a season, has for parentGuid the
\* composite URI of its parentRatingKey and for grandparentGuid that of its
\* grandparentRatingKey.
C27_ParentUris ==
  (Succeeded("getMetadata") \/ Succeeded("getChildren")
     \/ Succeeded("getGrandchildren"))
    => \A episode \in EpisodesOfResponse :
         /\ episode.parentGuid = CompositeUri(SeasonWord, episode.parentRatingKey)
         /\ episode.grandparentGuid
              = CompositeUri(ShowWord, episode.grandparentRatingKey)

(***************************************************************************)
(* C28: one episode, reached through its season and on its own             *)
(***************************************************************************)
\* The two lookups in flight have both returned: this one is getMetadata on
\* an episode identifier, the other getChildren on a season identifier.
EpisodeAndItsSeason ==
  /\ Succeeded("getMetadata")
  /\ frame.parsed.type = "episode"
  /\ others # <<>>
  /\ others[1].pc = "done"
  /\ others[1].frame.op = "getChildren"
  /\ others[1].result.kind = "MediaContainer"
  /\ others[1].frame.parsed.type = "season"

\* C28: an episode listed by getChildren on its season, and the episode
\* getMetadata returns for that episode's own identifier, have the same
\* parentRatingKey, parentGuid, parentTitle and parentThumb.
C28_SameParentLinkage ==
  EpisodeAndItsSeason
    => \A child \in Range(others[1].result.Metadata) :
         child.ratingKey = frame.ratingKey
           => /\ child.parentRatingKey = result.Metadata[1].parentRatingKey
              /\ child.parentGuid = result.Metadata[1].parentGuid
              /\ child.parentTitle = result.Metadata[1].parentTitle
              /\ child.parentThumb = result.Metadata[1].parentThumb

(***************************************************************************)
(* getGrandchildren with its awaited calls settling                        *)
(***************************************************************************)
\* The promise getGrandchildren awaits settles: upstream answers, or the
\* call rejects.
GrandchildrenSettle ==
  \/ getGrandchildren_series
  \/ getGrandchildren_season
  \/ \E e \in UpstreamErrors : Reject(e)

\* The identifiers and page windows getGrandchildren is called with here:
\* the series upstream has and one it has not, a season, the empty string;
\* no paging, a window in the list, an empty window, a negative start.
GrandchildrenKeys ==
  {encodeShow(12), encodeShow(1), encodeSeason(12, 1, <<>>), <<>>}

GrandchildrenPaging ==
  {NoPaging,
   [containerStart |-> <<2>>, containerSize |-> <<1>>],
   [containerStart |-> <<>>, containerSize |-> <<0>>],
   [containerStart |-> <<0 - 1>>, containerSize |-> <<>>]}

\* getGrandchildren is called.
StartGrandchildren ==
  /\ pc = "idle"
  /\ \E ratingKey \in GrandchildrenKeys, paging \in GrandchildrenPaging :
       getGrandchildren_call(ratingKey, paging)
  /\ UNCHANGED <<upstream, upstreamError, others>>

GrandchildrenNext ==
  \/ StartGrandchildren
  \/ getGrandchildren_series
  \/ getGrandchildren_season
  \/ \E e \in UpstreamErrors : Reject(e)
  \/ Return

\* Every awaited upstream call settles and the continuation is run.
SpecGrandchildren ==
  Init /\ [][GrandchildrenNext]_vars /\ WF_vars(GrandchildrenSettle)

(***************************************************************************)
(* C29: getGrandchildren terminates, with calls that the page leaves alone *)
(***************************************************************************)
\* How many of the issued upstream calls are fn(id).
CallsOf(fn, id) ==
  Cardinality({ k \in 1..Len(calls) : calls[k] = [fn |-> fn, args |-> <<id>>] })

\* The seasons upstream lists for the series.
UpstreamSeasons == SeriesOf(upstream).seasons

\* C29: a getGrandchildren that has started ends (in a response or in a
\* failure); and one that ends in a response has issued getSeriesDetails
\* once, first, and then getSeasonDetails once for each upstream season of
\* canonical ordering with number >= 1 and for no other season, whatever
\* containerStart and containerSize were.
C29_TerminatesSameCalls ==
  /\ (frame.op = "getGrandchildren") ~> (pc = "done")
  /\ [](Succeeded("getGrandchildren")
          => /\ calls[1] = [fn |-> "getSeriesDetails", args |-> <<12>>]
             /\ CallsOf("getSeriesDetails", 12) = 1
             /\ Len(calls) = 1 + Len(VisitedSeasons)
             /\ \A k \in 1..Len(UpstreamSeasons) :
                  CallsOf("getSeasonDetails", UpstreamSeasons[k].id)
                    = IF /\ UpstreamSeasons[k].type.type
                              \in {DefaultTag, OfficialWord}
                         /\ UpstreamSeasons[k].number >= 1
                        THEN 1 ELSE 0)

\* getGrandchildren has returned a page of size 0 of a series that lists the
\* specials and season 2: the series and season 2 were fetched, the
\* specials were not.
C29_Witness ==
  /\ Succeeded("getGrandchildren")
  /\ upstream.seasons = <<20, 22>>
  /\ frame.paging.containerSize = <<0>>
  /\ result.size = 0
  /\ result.totalSize = LongSeasonLen
  /\ Len(calls) = 2
  /\ CallsOf("getSeasonDetails", 22) = 1
  /\ CallsOf("getSeasonDetails", 20) = 0

(***************************************************************************)
(* C30: the Image list of a season that has an image                       *)
(***************************************************************************)
\* C30: a season mapped by mapSeason from an upstream season with a
\* non-empty image has an Image list, and the list is not empty, with or
\* without an extended artwork list and whatever the type codes in it.
C30_SeasonImage ==
  (pc = "done" /\ frame.op = "mapSeason" /\ frame.received.image # <<>>)
    => /\ result.Image # <<>>
       /\ Len(result.Image[1]) > 0

=============================================================================
